---- MODULE Spec2Model ----
(***************************************************************************)
(* A model of the storage backends of pipobscure/store: the Memory, Files  *)
(* and Bucket base backends, the ConflictToken they mint, and the Secret,  *)
(* Asymetric and Compression wrappers, as one state machine. The variable  *)
(* `backend` picks, in the initial state, which backend stack a behaviour  *)
(* exercises; every operation of that stack is one action.                 *)
(***************************************************************************)
EXTENDS Integers, Sequences, FiniteSets, TLC

VARIABLES backend, mem, files, sidecar, locks, objects, held, ghost, last,
          writers, installs, now, reading, callers, feed

vars == <<backend, mem, files, sidecar, locks, objects, held, ghost, last,
          writers, installs, now, reading, callers, feed>>

(***************************************************************************)
(* Bounds and input domains.                                               *)
(***************************************************************************)
\* longest plaintext buffer handed to write / writeStream
MaxLen == 1
\* most chunks in a stream handed to writeStream
MaxChunks == 1

\* latest reading of the clock, in milliseconds
MaxDate == 1
\* a call that stores something starts only while the store holds at most
\* this many ids
MaxStored == 4

\* two content ids are enough for rename(source, target)
Ids == {"a", "b"}

\* a plain byte with value n
B(n) == <<"b", n>>
PlainBytes == {B(48)}

SeqsUpTo(S, n) == UNION {[1..k -> S] : k \in 0..n}
Contents == SeqsUpTo(PlainBytes, MaxLen)

RECURSIVE Concat(_)
Concat(chunks) ==
  IF chunks = <<>> THEN <<>> ELSE Head(chunks) \o Concat(Tail(chunks))

\* the finite chunk sequences a stream can deliver: no chunk, one chunk
\* (which may be empty), or several non-empty chunks
ChunkSeqs ==
  {cs \in SeqsUpTo(Contents, MaxChunks) :
     /\ Len(Concat(cs)) <= MaxLen
     /\ Len(cs) > 1 => \A i \in 1..Len(cs) : cs[i] # <<>>}

DefaultType == "application/octet-stream"
\* the optional `type` argument: a MimeType or undefined
TypeArgs == {"bytes/random", "undefined"}
TypeOr(t) == IF t = "undefined" THEN DefaultType ELSE t

\* CR.createHash('sha-512').update(content).digest('hex'): collision free
Hash(content) == <<"sha512", content>>
\* the value of `this.#mem[id]?.hash` for a missing id, and `null`
Undef == <<>>

(***************************************************************************)
(* ConflictToken: the owner that minted it and the value it carries.       *)
(***************************************************************************)
NoToken == [owner |-> "none", value |-> Undef]
ConflictToken(owner, value) == [owner |-> owner, value |-> value]

\* ConflictToken.value(owner) raises for any owner but the minting one
ValueThrows(token, owner) == token # NoToken /\ token.owner # owner
\* token?.value(this), once it is known not to raise
ValueOf(token) == token.value

\* the backend instance the tokens of a stack come from
Owner(b) ==
  CASE b = "Files" -> "Files"
    [] b = "Bucket" -> "Bucket"
    [] OTHER -> "Memory"

(***************************************************************************)
(* Memory: a record from ContentId to {type, hash, data}.                  *)
(***************************************************************************)
Put(m, id, entry) == [i \in DOMAIN m \cup {id} |-> IF i = id THEN entry ELSE m[i]]
Drop(m, id) == [i \in DOMAIN m \ {id} |-> m[i]]

MemoryHash(m, id) == IF id \in DOMAIN m THEN m[id].hash ELSE Undef

MemoryToken(m, id) ==
  IF MemoryHash(m, id) = Undef THEN NoToken
  ELSE ConflictToken("Memory", MemoryHash(m, id))

MemoryExists(m, id) == id \in DOMAIN m

MemoryType(m, id) == IF id \in DOMAIN m THEN m[id].type ELSE "null"

\* read: null, or {content, type}
NullRead == [found |-> FALSE, content |-> <<>>, type |-> "null"]
Found(content, type) == [found |-> TRUE, content |-> content, type |-> type]

MemoryRead(m, id) ==
  IF id \in DOMAIN m THEN Found(m[id].data, m[id].type) ELSE NullRead

\* readStream: the chunks it yields, and whether the stream ends in an error
Stream(chunks) == [chunks |-> chunks, error |-> FALSE]
MemoryReadStream(m, id) ==
  IF MemoryRead(m, id).found THEN Stream(<<MemoryRead(m, id).content>>)
  ELSE Stream(<<>>)

\* a write that skips the comparison of the token with the stored hash
MemoryWriteResultNoCompare(m, id, token) ==
  IF ValueThrows(token, "Memory") THEN "throw"
  ELSE IF token = NoToken /\ id \in DOMAIN m THEN "false"
  ELSE "true"

MemoryWriteResult(m, id, token) ==
  IF ValueThrows(token, "Memory") THEN "throw"
  ELSE IF ValueOf(token) # MemoryHash(m, id) THEN "false"
  ELSE IF token = NoToken /\ id \in DOMAIN m THEN "false"
  ELSE "true"

\* a write that stores the entry whatever it returns
MemoryWriteStoresAnyway(m, id, content, type, token) ==
  [res |-> MemoryWriteResult(m, id, token),
   mem |-> Put(m, id, [type |-> TypeOr(type), hash |-> Hash(content),
                       data |-> content])]

MemoryWrite(m, id, content, type, token) ==
  LET res == MemoryWriteResult(m, id, token)
  IN  [res |-> res,
       mem |-> IF res = "true"
               THEN Put(m, id, [type |-> TypeOr(type), hash |-> Hash(content),
                                data |-> content])
               ELSE m]

MemoryDelete(m, id, token) ==
  IF ValueThrows(token, "Memory") THEN [res |-> "throw", mem |-> m]
  ELSE IF ValueOf(token) # MemoryHash(m, id) THEN [res |-> "false", mem |-> m]
  ELSE [res |-> "true", mem |-> Drop(m, id)]

MemoryWriteStream(m, id, chunks, type, token) ==
  MemoryWrite(m, id, Concat(chunks), type, token)

MemoryRename(m, source, target) ==
  IF ~MemoryExists(m, source) \/ MemoryExists(m, target)
  THEN [res |-> "false", mem |-> m]
  ELSE [res |-> "true", mem |-> Drop(Put(m, target, m[source]), source)]

(***************************************************************************)
(* Lock: exclusive creation of one lock file per name.                     *)
(***************************************************************************)
\* Lock.#create: writeFile(lockfile, ..., {flag: 'wx'})
LockCreate(lk, name) == name \notin lk

\* Lock.await under one event loop with nobody left to release the file:
\* the watch ends when the 30 s AbortSignal fires, and the call raises
LockAwait(lk, name) ==
  IF LockCreate(lk, name) THEN [got |-> TRUE, locks |-> lk \cup {name}]
  ELSE [got |-> FALSE, locks |-> lk]

\* Lock.release / Symbol.asyncDispose: unlink, ENOENT is benign
LockRelease(lk, name) == lk \ {name}

\* `await using lock`: the scope's exit releases a lock that was taken
Dispose(lk, name, taken) == IF taken THEN LockRelease(lk, name) ELSE lk

\* a scope exit that forgets the lock when the body raised
DisposeUnlessThrown(lk, name, taken, res) ==
  IF res = "throw" THEN lk ELSE Dispose(lk, name, taken)

\* the lock files left behind by an operation that ended with `res`
Disposed(lk, name, taken, res) == Dispose(lk, name, taken)

(***************************************************************************)
(* Files: <base>/<path(id)> holds the bytes, <base>/<path(id)>.data the    *)
(* JSON sidecar {type, hash}.                                              *)
(***************************************************************************)
FS(f, s, lk) == [files |-> f, sidecar |-> s, locks |-> lk]
Outcome(res, F) ==
  [res |-> res, files |-> F.files, sidecar |-> F.sidecar, locks |-> F.locks]

FilesHash(F, id) == IF id \in DOMAIN F.sidecar THEN F.sidecar[id].hash ELSE Undef

FilesToken(F, id) ==
  IF id \in DOMAIN F.sidecar THEN ConflictToken("Files", F.sidecar[id].hash)
  ELSE NoToken

FilesExists(F, id) == id \in DOMAIN F.files

FilesType(F, id) == IF id \in DOMAIN F.sidecar THEN F.sidecar[id].type ELSE "null"

FilesRead(F, id) ==
  IF id \in DOMAIN F.files /\ id \in DOMAIN F.sidecar
  THEN Found(F.files[id], F.sidecar[id].type)
  ELSE NullRead

\* createReadStream(name): the file's bytes, or an ENOENT error
FilesReadStream(F, id) ==
  IF id \notin DOMAIN F.files THEN [chunks |-> <<>>, error |-> TRUE]
  ELSE IF F.files[id] = <<>> THEN Stream(<<>>)
  ELSE Stream(<<F.files[id]>>)

\* a comparison of the stored hash with the token that lets every token pass
TokenMatchesAny(current, token) == TRUE

\* current !== (token?.value(this) ?? null), negated
TokenMatches(current, token) == current = ValueOf(token)

\* FS.writeFile(name, value, {flag}): 'wx' fails with EEXIST on an existing file
WriteFileFails(m, id, flag) == flag = "wx" /\ id \in DOMAIN m
WriteFile(m, id, value, flag) ==
  IF WriteFileFails(m, id, flag) THEN m ELSE Put(m, id, value)

FilesWrite(F, id, content, type, token) ==
  LET taken == token # NoToken
      lock == IF taken THEN LockAwait(F.locks, id)
              ELSE [got |-> TRUE, locks |-> F.locks]
      current == IF taken THEN FilesHash(F, id) ELSE Undef
      flag == IF taken THEN "w" ELSE "wx"
      meta == [type |-> TypeOr(type), hash |-> Hash(content)]
      res == IF ~lock.got THEN "throw"
             ELSE IF ValueThrows(token, "Files") THEN "throw"
             ELSE IF ~TokenMatches(current, token) THEN "false"
             ELSE IF WriteFileFails(F.files, id, flag)
                     \/ WriteFileFails(F.sidecar, id, flag) THEN "throw"
             ELSE "true"
      reached == lock.got /\ ~ValueThrows(token, "Files")
                 /\ TokenMatches(current, token)
  IN  Outcome(res,
        FS(IF reached THEN WriteFile(F.files, id, content, flag) ELSE F.files,
           IF reached THEN WriteFile(F.sidecar, id, meta, flag) ELSE F.sidecar,
           IF lock.got THEN Disposed(lock.locks, id, taken, res) ELSE F.locks))

FilesDelete(F, id, token) ==
  LET lock == LockAwait(F.locks, id)
      res == IF ~lock.got THEN "throw"
             ELSE IF ValueThrows(token, "Files") THEN "throw"
             ELSE IF ValueOf(token) # FilesHash(F, id) THEN "false"
             ELSE IF id \notin DOMAIN F.files \/ id \notin DOMAIN F.sidecar
             THEN "false"
             ELSE "true"
      reached == lock.got /\ ~ValueThrows(token, "Files")
                 /\ ValueOf(token) = FilesHash(F, id)
  IN  Outcome(res,
        FS(IF reached THEN Drop(F.files, id) ELSE F.files,
           IF reached THEN Drop(F.sidecar, id) ELSE F.sidecar,
           IF lock.got THEN Disposed(lock.locks, id, TRUE, res) ELSE F.locks))

FilesWriteStream(F, id, chunks, type, token) ==
  LET taken == token # NoToken
      lock == IF taken THEN LockAwait(F.locks, id)
              ELSE [got |-> TRUE, locks |-> F.locks]
      current == IF taken THEN FilesHash(F, id) ELSE Undef
      flag == IF taken THEN "w" ELSE "wx"
      meta == [type |-> TypeOr(type), hash |-> Hash(Concat(chunks))]
      reached == lock.got /\ ~ValueThrows(token, "Files")
                 /\ TokenMatches(current, token)
      \* createWriteStream(name, {flags}): a failed open fails the first
      \* output.write; with no chunk at all only output.end is called
      openFails == WriteFileFails(F.files, id, flag)
      bodyFails == openFails /\ chunks # <<>>
      res == IF ~lock.got THEN "throw"
             ELSE IF ValueThrows(token, "Files") THEN "throw"
             ELSE IF ~TokenMatches(current, token) THEN "false"
             ELSE IF bodyFails THEN "throw"
             ELSE IF WriteFileFails(F.sidecar, id, flag) THEN "throw"
             ELSE "true"
  IN  Outcome(res,
        FS(IF reached THEN WriteFile(F.files, id, Concat(chunks), flag)
           ELSE F.files,
           IF reached /\ ~bodyFails THEN WriteFile(F.sidecar, id, meta, flag)
           ELSE F.sidecar,
           IF lock.got THEN Disposed(lock.locks, id, taken, res) ELSE F.locks))

FilesRename(F, source, target) ==
  IF ~FilesExists(F, source) \/ FilesExists(F, target) THEN Outcome("false", F)
  ELSE Outcome("true",
         FS(Drop(Put(F.files, target, F.files[source]), source),
            F.sidecar, F.locks))

(***************************************************************************)
(* The S3 client the Bucket backend talks to: one object {etag, type,      *)
(* body} per key, conditional put and del.                                 *)
(***************************************************************************)
\* the ETag the server gives a body: an opaque comparable string
ETag(body) == <<"etag", body>>

\* head(name).etag, undefined on 404
S3Etag(objs, id) == IF id \in DOMAIN objs THEN objs[id].etag ELSE Undef

\* put(name, body, type, ifMatch): If-Match: <etag> when an etag is given,
\* If-None-Match: * otherwise; a failed precondition is status 412
S3PutOk(objs, id, ifMatch) ==
  IF ifMatch = Undef THEN id \notin DOMAIN objs ELSE S3Etag(objs, id) = ifMatch

S3Put(objs, id, body, type, ifMatch) ==
  IF S3PutOk(objs, id, ifMatch)
  THEN Put(objs, id, [etag |-> ETag(body), type |-> type, body |-> body])
  ELSE objs

(***************************************************************************)
(* Bucket                                                                  *)
(***************************************************************************)
BucketHash(objs, id) == S3Etag(objs, id)

BucketToken(objs, id) ==
  IF id \in DOMAIN objs THEN ConflictToken("Bucket", objs[id].etag) ELSE NoToken

BucketExists(objs, id) == id \in DOMAIN objs

BucketType(objs, id) == IF id \in DOMAIN objs THEN objs[id].type ELSE "null"

BucketRead(objs, id) ==
  IF id \in DOMAIN objs THEN Found(objs[id].body, objs[id].type) ELSE NullRead

BucketWrite(objs, id, content, type, token) ==
  LET etag == S3Etag(objs, id)
  IN  IF ValueThrows(token, "Bucket") THEN [res |-> "throw", objects |-> objs]
      ELSE IF token # NoToken /\ etag # ValueOf(token)
      THEN [res |-> "false", objects |-> objs]
      ELSE [res |-> IF S3PutOk(objs, id, etag) THEN "true" ELSE "false",
            objects |-> S3Put(objs, id, content, TypeOr(type), etag)]

BucketDelete(objs, id, token) ==
  LET etag == BucketHash(objs, id)
  IN  IF etag = Undef THEN [res |-> "false", objects |-> objs]
      ELSE IF ValueThrows(token, "Bucket") THEN [res |-> "throw", objects |-> objs]
      ELSE IF etag # ValueOf(token) THEN [res |-> "false", objects |-> objs]
      ELSE [res |-> "true", objects |-> Drop(objs, id)]

BucketWriteStream(objs, id, chunks, type, token) ==
  IF ValueThrows(token, "Bucket") THEN [res |-> "throw", objects |-> objs]
  ELSE [res |-> IF S3PutOk(objs, id, ValueOf(token)) THEN "true" ELSE "false",
        objects |-> S3Put(objs, id, Concat(chunks), TypeOr(type), ValueOf(token))]

BucketRename(objs, source, target) ==
  IF ~BucketExists(objs, source) \/ BucketExists(objs, target)
  THEN [res |-> "false", objects |-> objs]
  ELSE [res |-> "true",
        objects |-> Drop(Put(objs, target, objs[source]), source)]

(***************************************************************************)
(* Buffers and AES-256-GCM, symbolically. A ciphertext byte names the key, *)
(* its position in the key stream and the plaintext byte it hides; the     *)
(* auth tag names the key and the whole plaintext, so any other key, order *)
(* or byte fails authentication.                                           *)
(***************************************************************************)
\* byte lengths of the frame parts
HdrLen == 4
KeyLen == 48
TagLen == 16
PreambleLen == 68
AkeHdrLen == 6
\* publicEncrypt output for the 1024-bit RSA key of the tests
RsaLen == 128

\* the random data keys randomBytes(48) can return
DataKeys == {"k1", "k2"}

Min(a, b) == IF a < b THEN a ELSE b
Max(a, b) == IF a > b THEN a ELSE b

\* Buffer.subarray(start, end): negative indices count from the end,
\* both are clamped to the buffer
Clamp(buf, i) == IF i < 0 THEN Max(Len(buf) + i, 0) ELSE Min(i, Len(buf))
Subarray(buf, start, end) == SubSeq(buf, Clamp(buf, start) + 1, Clamp(buf, end))
SubarrayFrom(buf, start) == SubSeq(buf, Clamp(buf, start) + 1, Len(buf))

SKE == <<B(83), B(75), B(69), B(58)>>
AKE == <<B(65), B(75), B(69), B(58)>>
\* hdr.writeUInt16BE(n, 4) / readUInt16BE(4)
UInt16BE(n) == <<B(n \div 256), B(n % 256)>>
IsPlain(byte) == byte[1] = "b"
ReadUInt16BE(buf, at) ==
  IF IsPlain(buf[at + 1]) /\ IsPlain(buf[at + 2])
  THEN buf[at + 1][2] * 256 + buf[at + 2][2]
  ELSE 0

\* cipher.update: byte i of the key stream of k applied to pt
CipherBytes(k, pt, from) ==
  [i \in 1..Len(pt) |-> <<"ct", k, from + i, pt[i]>>]
AuthTag(k, pt) == [i \in 1..TagLen |-> <<"at", k, i, pt>>]

\* encrypt(keydata, content): [data, authTag]
Encrypt(k, pt) == [data |-> CipherBytes(k, pt, 0), tag |-> AuthTag(k, pt)]

\* decipher.update on the byte at key stream position pos
Garbage == <<"g">>
PlainOf(k, byte, pos) ==
  IF byte[1] = "ct" /\ byte[2] = k /\ byte[3] = pos THEN byte[4] ELSE Garbage
DecipherBytes(k, data, from) ==
  [i \in 1..Len(data) |-> PlainOf(k, data[i], from + i)]

\* decrypt(keydata, authTag, data): the plaintext, or an authentication error
Decrypt(k, tag, data) ==
  LET pt == DecipherBytes(k, data, 0)
  IN  IF (\A i \in 1..Len(pt) : pt[i] # Garbage) /\ tag = AuthTag(k, pt)
      THEN [ok |-> TRUE, data |-> pt]
      ELSE [ok |-> FALSE, data |-> <<>>]

\* the data key under the master secret: encrypt(secret, keydata)
EncKey(k) == [i \in 1..KeyLen |-> <<"ek", k, i>>]
KeyTag(k) == [i \in 1..TagLen |-> <<"kt", k, i>>]
\* decrypt(secret, keytag, enckey): the data key, or an authentication error
Unwrap(keytag, enckey) ==
  LET ks == {k \in DataKeys : enckey = EncKey(k) /\ keytag = KeyTag(k)}
  IN  IF ks = {} THEN [ok |-> FALSE, key |-> "none"]
      ELSE [ok |-> TRUE, key |-> CHOOSE k \in ks : TRUE]

\* CR.publicEncrypt(key, keydata) / CR.privateDecrypt(key, enckey)
RsaKey(k) == [i \in 1..RsaLen |-> <<"rk", k, i>>]
PrivateDecrypt(enckey) ==
  LET ks == {k \in DataKeys : enckey = RsaKey(k)}
  IN  IF ks = {} THEN [ok |-> FALSE, key |-> "none"]
      ELSE [ok |-> TRUE, key |-> CHOOSE k \in ks : TRUE]

ThrowRead == [found |-> FALSE, content |-> <<>>, type |-> "throw"]

(***************************************************************************)
(* Secret over a Memory backend                                            *)
(***************************************************************************)
SecretFrame(k, content) ==
  SKE \o EncKey(k) \o KeyTag(k) \o Encrypt(k, content).data
      \o Encrypt(k, content).tag

\* a read that takes every stored object for a frame
SecretReadNoPass(m, id) ==
  LET inner == MemoryRead(m, id)
      content == inner.content
      key == Unwrap(Subarray(content, 52, 68), Subarray(content, 4, 52))
      data == Decrypt(key.key, SubarrayFrom(content, -16),
                      Subarray(content, 68, -16))
  IN  IF ~inner.found THEN NullRead
      ELSE IF ~key.ok \/ ~data.ok THEN NullRead
      ELSE Found(data.data, inner.type)

SecretRead(m, id) ==
  LET inner == MemoryRead(m, id)
      content == inner.content
      key == Unwrap(Subarray(content, 52, 68), Subarray(content, 4, 52))
      data == Decrypt(key.key, SubarrayFrom(content, -16),
                      Subarray(content, 68, -16))
  IN  IF ~inner.found THEN NullRead
      ELSE IF Subarray(content, 0, 4) # SKE THEN Found(content, inner.type)
      ELSE IF ~key.ok \/ ~data.ok THEN NullRead
      ELSE Found(data.data, inner.type)

SecretWrite(m, id, content, type, token, k) ==
  MemoryWrite(m, id, SecretFrame(k, content), type, token)

\* encryptor: the header is pushed by the first transform call, the auth
\* tag by final
SecretEncryptor(k, chunks) ==
  (IF chunks # <<>> THEN SKE \o EncKey(k) \o KeyTag(k) ELSE <<>>)
    \o CipherBytes(k, Concat(chunks), 0) \o AuthTag(k, Concat(chunks))

SecretWriteStream(m, id, chunks, type, token, k) ==
  MemoryWriteStream(m, id, <<SecretEncryptor(k, chunks)>>, type, token)

(***************************************************************************)
(* The stream decryptor of Secret: a Transform fed chunk by chunk.         *)
(* `hasBuffer` tells a null buffer from an empty one; `fed` counts the     *)
(* bytes handed to decipher.update and `plain` is what it returned.        *)
(***************************************************************************)
NewDecryptor ==
  [buffer |-> <<>>, hasBuffer |-> FALSE, cipher |-> FALSE, key |-> "none",
   fed |-> 0, plain |-> <<>>, passmode |-> FALSE, out |-> <<>>,
   error |-> FALSE]

\* this.push(cipher.update(data))
Update(d, data) ==
  [d EXCEPT !.fed = d.fed + Len(data),
            !.plain = d.plain \o DecipherBytes(d.key, data, d.fed),
            !.out = d.out \o DecipherBytes(d.key, data, d.fed)]

\* the tail of transform once the cipher exists: keep the last 16 bytes
KeepTag(d, chunk) ==
  IF Len(chunk) > TagLen
  THEN [Update(d, Subarray(chunk, 0, -16)) EXCEPT
          !.buffer = SubarrayFrom(chunk, -16), !.hasBuffer = TRUE]
  ELSE d

SecretTransform(d, piece) ==
  LET chunk == IF d.hasBuffer THEN d.buffer \o piece ELSE piece
      key == Unwrap(Subarray(chunk, 52, 68), Subarray(chunk, 4, 52))
  IN  IF d.error THEN d
      ELSE IF ~d.passmode /\ ~d.cipher /\ Len(chunk) < HdrLen
      THEN [d EXCEPT !.buffer = chunk, !.hasBuffer = TRUE]
      ELSE IF d.passmode THEN [d EXCEPT !.out = d.out \o chunk]
      ELSE IF d.cipher THEN KeepTag(d, chunk)
      ELSE IF Subarray(chunk, 0, 4) # SKE
      THEN [d EXCEPT !.passmode = TRUE, !.out = d.out \o chunk]
      ELSE IF Len(chunk) < PreambleLen
      THEN [d EXCEPT !.buffer = chunk, !.hasBuffer = TRUE]
      ELSE IF ~key.ok THEN [d EXCEPT !.error = TRUE]
      ELSE KeepTag([d EXCEPT !.cipher = TRUE, !.key = key.key],
                   SubarrayFrom(chunk, PreambleLen))

\* final: the retained bytes are the auth tag; cipher.final() raises when
\* the tag does not authenticate what was fed
DecryptorFinal(d) ==
  LET tag == SubarrayFrom(d.buffer, -16)
      fin == Update(d, Subarray(d.buffer, 0, -16))
  IN  IF d.error \/ d.passmode THEN d
      ELSE IF ~d.hasBuffer \/ ~d.cipher THEN [d EXCEPT !.error = TRUE]
      ELSE IF (\A i \in 1..Len(fin.plain) : fin.plain[i] # Garbage)
              /\ tag = AuthTag(d.key, fin.plain)
      THEN [fin EXCEPT !.buffer = Subarray(d.buffer, 0, -16)]
      ELSE [fin EXCEPT !.buffer = Subarray(d.buffer, 0, -16), !.error = TRUE]

RECURSIVE SecretFeed(_, _)
SecretFeed(d, chunks) ==
  IF chunks = <<>> THEN d
  ELSE SecretFeed(SecretTransform(d, Head(chunks)), Tail(chunks))

\* pipe(stream, decrypt): every chunk is written, then the transform is ended;
\* a failing source makes pipe emit the error on the transform
Decrypted(d, source) ==
  [chunks |-> IF d.out = <<>> THEN <<>> ELSE <<d.out>>,
   error |-> d.error \/ source.error]

SecretReadStream(m, id) ==
  LET source == MemoryReadStream(m, id)
  IN  Decrypted(DecryptorFinal(SecretFeed(NewDecryptor, source.chunks)), source)

(***************************************************************************)
(* Asymetric over a Memory backend                                         *)
(***************************************************************************)
AsymetricFrame(k, content) ==
  AKE \o UInt16BE(RsaLen) \o RsaKey(k) \o Encrypt(k, content).data
      \o Encrypt(k, content).tag

AsymetricRead(m, id) ==
  LET inner == MemoryRead(m, id)
      content == inner.content
      keylen == ReadUInt16BE(content, 4)
      key == PrivateDecrypt(Subarray(content, 6, 6 + keylen))
      data == Decrypt(key.key, SubarrayFrom(content, -16),
                      Subarray(content, 6 + keylen, -16))
  IN  IF ~inner.found THEN NullRead
      ELSE IF Subarray(content, 0, 4) # AKE THEN Found(content, inner.type)
      ELSE IF Len(content) < AkeHdrLen THEN ThrowRead
      ELSE IF ~key.ok \/ ~data.ok THEN ThrowRead
      ELSE Found(data.data, inner.type)

AsymetricWrite(m, id, content, type, token, k) ==
  MemoryWrite(m, id, AsymetricFrame(k, content), TypeOr(type), token)

AsymetricEncryptor(k, chunks) ==
  (IF chunks # <<>> THEN AKE \o UInt16BE(RsaLen) \o RsaKey(k) ELSE <<>>)
    \o CipherBytes(k, Concat(chunks), 0) \o AuthTag(k, Concat(chunks))

\* try { ... } catch { return false }
Caught(r) == IF r.res = "throw" THEN [r EXCEPT !.res = "false"] ELSE r

AsymetricWriteStream(m, id, chunks, type, token, k) ==
  Caught(MemoryWriteStream(m, id, <<AsymetricEncryptor(k, chunks)>>, type, token))

AsymetricTransform(d, piece) ==
  LET chunk == IF d.hasBuffer THEN d.buffer \o piece ELSE piece
      encsize == ReadUInt16BE(chunk, 4)
      key == PrivateDecrypt(Subarray(chunk, 6, 6 + encsize))
  IN  IF d.error THEN d
      ELSE IF ~d.passmode /\ ~d.cipher /\ Len(chunk) < AkeHdrLen
      THEN [d EXCEPT !.buffer = chunk, !.hasBuffer = TRUE]
      ELSE IF d.passmode THEN [d EXCEPT !.out = d.out \o chunk]
      ELSE IF d.cipher THEN KeepTag(d, chunk)
      ELSE IF Subarray(chunk, 0, 4) # AKE
      THEN [d EXCEPT !.passmode = TRUE, !.out = d.out \o chunk]
      ELSE IF Len(chunk) < AkeHdrLen + encsize
      THEN [d EXCEPT !.buffer = chunk, !.hasBuffer = TRUE]
      ELSE IF ~key.ok THEN [d EXCEPT !.error = TRUE]
      ELSE KeepTag([d EXCEPT !.cipher = TRUE, !.key = key.key],
                   SubarrayFrom(chunk, AkeHdrLen + encsize))

RECURSIVE AsymetricFeed(_, _)
AsymetricFeed(d, chunks) ==
  IF chunks = <<>> THEN d
  ELSE AsymetricFeed(AsymetricTransform(d, Head(chunks)), Tail(chunks))

AsymetricReadStream(m, id) ==
  LET source == MemoryReadStream(m, id)
  IN  Decrypted(DecryptorFinal(AsymetricFeed(NewDecryptor, source.chunks)), source)

(***************************************************************************)
(* Compression over a Memory backend. The codec is an opaque library: a    *)
(* header byte, then one coded byte per input byte.                        *)
(***************************************************************************)
ZHdr == <<"zh">>
Compress(content) ==
  <<ZHdr>> \o [i \in 1..Len(content) |-> <<"zb", content[i]>>]
Decompress(z) ==
  IF Len(z) > 0 /\ z[1] = ZHdr /\ \A i \in 2..Len(z) : z[i][1] = "zb"
  THEN [ok |-> TRUE, data |-> [i \in 1..(Len(z) - 1) |-> z[i + 1][2]]]
  ELSE [ok |-> FALSE, data |-> <<>>]

CompressionRead(m, id) ==
  LET inner == MemoryRead(m, id)
  IN  IF ~inner.found THEN NullRead
      ELSE IF ~Decompress(inner.content).ok THEN ThrowRead
      ELSE Found(Decompress(inner.content).data, inner.type)

CompressionWrite(m, id, content, type, token) ==
  MemoryWrite(m, id, Compress(content), TypeOr(type), token)

CompressionWriteStream(m, id, chunks, type, token) ==
  Caught(MemoryWriteStream(m, id, <<Compress(Concat(chunks))>>, type, token))

CompressionReadStream(m, id) ==
  LET source == MemoryReadStream(m, id)
      z == Decompress(Concat(source.chunks))
  IN  [chunks |-> IF z.data = <<>> THEN <<>> ELSE <<z.data>>, error |-> ~z.ok]

(***************************************************************************)
(* The Backend contract, dispatched on the stack under test.               *)
(***************************************************************************)
Backends == {"Memory", "Files", "Bucket", "Secret", "Asymetric", "Compression"}

St(m, F, objs) == [mem |-> m, F |-> F, objects |-> objs]
Cur == St(mem, FS(files, sidecar, locks), objects)

Exists(b, S, id) ==
  CASE b = "Files" -> FilesExists(S.F, id)
    [] b = "Bucket" -> BucketExists(S.objects, id)
    [] OTHER -> MemoryExists(S.mem, id)

HashOf(b, S, id) ==
  CASE b = "Files" -> FilesHash(S.F, id)
    [] b = "Bucket" -> BucketHash(S.objects, id)
    [] OTHER -> MemoryHash(S.mem, id)

TypeOf(b, S, id) ==
  CASE b = "Files" -> FilesType(S.F, id)
    [] b = "Bucket" -> BucketType(S.objects, id)
    [] OTHER -> MemoryType(S.mem, id)

TokenOf(b, S, id) ==
  CASE b = "Files" -> FilesToken(S.F, id)
    [] b = "Bucket" -> BucketToken(S.objects, id)
    [] OTHER -> MemoryToken(S.mem, id)

Read(b, S, id) ==
  CASE b = "Files" -> FilesRead(S.F, id)
    [] b = "Bucket" -> BucketRead(S.objects, id)
    [] b = "Secret" -> SecretRead(S.mem, id)
    [] b = "Asymetric" -> AsymetricRead(S.mem, id)
    [] b = "Compression" -> CompressionRead(S.mem, id)
    [] OTHER -> MemoryRead(S.mem, id)

\* the Bucket's stream is the S3 client's: the body, or the 404 as an error
ReadStream(b, S, id) ==
  CASE b = "Files" -> FilesReadStream(S.F, id)
    [] b = "Bucket" -> [chunks |-> IF BucketRead(S.objects, id).content = <<>>
                                   THEN <<>>
                                   ELSE <<BucketRead(S.objects, id).content>>,
                        error |-> ~BucketExists(S.objects, id)]
    [] b = "Secret" -> SecretReadStream(S.mem, id)
    [] b = "Asymetric" -> AsymetricReadStream(S.mem, id)
    [] b = "Compression" -> CompressionReadStream(S.mem, id)
    [] OTHER -> MemoryReadStream(S.mem, id)

\* what the five queries of the contract return for an id
Observe(b, S, id) ==
  [exists |-> Exists(b, S, id), read |-> Read(b, S, id),
   type |-> TypeOf(b, S, id), hash |-> HashOf(b, S, id),
   token |-> TokenOf(b, S, id)]

\* an operation's result and the state it leaves
InMem(S, r) == [res |-> r.res, S |-> St(r.mem, S.F, S.objects)]
InFiles(S, r) == [res |-> r.res, S |-> St(S.mem, FS(r.files, r.sidecar, r.locks), S.objects)]
InBucket(S, r) == [res |-> r.res, S |-> St(S.mem, S.F, r.objects)]

Write(b, S, id, content, type, token, k) ==
  CASE b = "Files" -> InFiles(S, FilesWrite(S.F, id, content, type, token))
    [] b = "Bucket" -> InBucket(S, BucketWrite(S.objects, id, content, type, token))
    [] b = "Secret" -> InMem(S, SecretWrite(S.mem, id, content, type, token, k))
    [] b = "Asymetric" -> InMem(S, AsymetricWrite(S.mem, id, content, type, token, k))
    [] b = "Compression" -> InMem(S, CompressionWrite(S.mem, id, content, type, token))
    [] OTHER -> InMem(S, MemoryWrite(S.mem, id, content, type, token))

WriteStream(b, S, id, chunks, type, token, k) ==
  CASE b = "Files" -> InFiles(S, FilesWriteStream(S.F, id, chunks, type, token))
    [] b = "Bucket" -> InBucket(S, BucketWriteStream(S.objects, id, chunks, type, token))
    [] b = "Secret" -> InMem(S, SecretWriteStream(S.mem, id, chunks, type, token, k))
    [] b = "Asymetric" -> InMem(S, AsymetricWriteStream(S.mem, id, chunks, type, token, k))
    [] b = "Compression" -> InMem(S, CompressionWriteStream(S.mem, id, chunks, type, token))
    [] OTHER -> InMem(S, MemoryWriteStream(S.mem, id, chunks, type, token))

Delete(b, S, id, token) ==
  CASE b = "Files" -> InFiles(S, FilesDelete(S.F, id, token))
    [] b = "Bucket" -> InBucket(S, BucketDelete(S.objects, id, token))
    [] OTHER -> InMem(S, MemoryDelete(S.mem, id, token))

Rename(b, S, source, target) ==
  CASE b = "Files" -> InFiles(S, FilesRename(S.F, source, target))
    [] b = "Bucket" -> InBucket(S, BucketRename(S.objects, source, target))
    [] OTHER -> InMem(S, MemoryRename(S.mem, source, target))

(***************************************************************************)
(* The caller. It keeps one token (`held`), got from token(id) or minted   *)
(* by another backend instance, and passes to an operation no token, the   *)
(* held one, or a fresh one: `await backend.token(id)` written in the call *)
(* itself. `last` is the last call: its name, id, rename target, token     *)
(* argument and result.                                                    *)
(* `ghost` is history, kept for the Memory and Bucket stacks: the id       *)
(* `held` was minted for, how many successful writes, deletes and renames  *)
(* have touched that id since (2 standing for two or more), and whether    *)
(* one of them left a hash other than the held token's value.              *)
(***************************************************************************)
TokenKinds == {"none", "held"}
Tok(kind, id) ==
  CASE kind = "held" -> held
    [] kind = "fresh" -> TokenOf(backend, Cur, id)
    [] OTHER -> NoToken

\* a token argument is a token the caller has
Usable(kind, id) == kind # "none" => Tok(kind, id) # NoToken
\* only the encrypting wrappers draw a data key
KeysOf(b) == IF b \in {"Secret", "Asymetric"} THEN DataKeys ELSE {"k1"}

Call(op, id, to, tk, res) ==
  [op |-> op, id |-> id, to |-> to, tk |-> tk, res |-> res]
NoGhost == [id |-> "none", touched |-> 0, changed |-> FALSE]
Tracked == {"Memory", "Bucket"}

Install(r) ==
  /\ mem' = r.S.mem
  /\ files' = r.S.F.files
  /\ sidecar' = r.S.F.sidecar
  /\ locks' = r.S.F.locks
  /\ objects' = r.S.objects

Touch(ids, r) ==
  ghost' = IF r.res = "true" /\ ghost.id \in ids
           THEN [id |-> ghost.id,
                 touched |-> Min(ghost.touched + 1, 2),
                 changed |-> ghost.changed
                             \/ HashOf(backend, r.S, ghost.id) # held.value]
           ELSE ghost

DoWrite(id, content, type, tk, k) ==
  /\ Usable(tk, id)
  /\ \E r \in {Write(backend, Cur, id, content, type, Tok(tk, id), k)} :
      /\ Install(r)
      /\ Touch({id}, r)
      /\ last' = Call("write", id, "none", tk, r.res)
      /\ UNCHANGED <<feed, reading, callers, backend, held, writers, installs, now>>

DoWriteStream(id, chunks, type, tk, k) ==
  /\ Usable(tk, id)
  /\ \E r \in {WriteStream(backend, Cur, id, chunks, type, Tok(tk, id), k)} :
      /\ Install(r)
      /\ Touch({id}, r)
      /\ last' = Call("writeStream", id, "none", tk, r.res)
      /\ UNCHANGED <<feed, reading, callers, backend, held, writers, installs, now>>

DoDelete(id, tk) ==
  /\ Usable(tk, id)
  /\ tk # "none"
  /\ \E r \in {Delete(backend, Cur, id, Tok(tk, id))} :
      /\ Install(r)
      /\ Touch({id}, r)
      /\ last' = Call("delete", id, "none", tk, r.res)
      /\ UNCHANGED <<feed, reading, callers, backend, held, writers, installs, now>>

DoRename(source, target) ==
  \E r \in {Rename(backend, Cur, source, target)} :
      /\ Install(r)
      /\ Touch({source, target}, r)
      /\ last' = Call("rename", source, target, "none", r.res)
      /\ UNCHANGED <<feed, reading, callers, backend, held, writers, installs, now>>

\* token(id): the caller keeps the token it returns
DoToken(id) ==
  /\ TokenOf(backend, Cur, id) # NoToken
  /\ held' = TokenOf(backend, Cur, id)
  /\ ghost' = IF backend \in Tracked
              THEN [id |-> id, touched |-> 0, changed |-> FALSE]
              ELSE NoGhost
  /\ last' = Call("token", id, "none", "none", "true")
  /\ UNCHANGED <<feed, reading, callers, backend, mem, files, sidecar, locks, objects, writers, installs,
                 now>>

\* a token minted by another backend instance for some content it stores
DoOtherToken(content) ==
  /\ held' = ConflictToken("Other", Hash(content))
  /\ ghost' = NoGhost
  /\ last' = Call("otherToken", "none", "none", "none", "true")
  /\ UNCHANGED <<feed, reading, callers, backend, mem, files, sidecar, locks, objects, writers, installs,
                 now>>

Empty == [i \in {} |-> NoToken]

\* the names a Frontend's caller uses, the clock's readings, the uuids of
\* its temporary names, and its concurrent callers
Names == {"n1", "n2"}
Dates == 1..MaxDate
Uuids == <<"u1", "u2">>
Range(f) == {f[i] : i \in DOMAIN f}
\* a tag that records the default type, whatever type it is given
TagDataUntyped(keys, name, cid, type, date, pre) ==
  [keys |-> keys, name |-> name, cid |-> cid, type |-> DefaultType,
   date |-> date, pre |-> pre]
\* a tag object; `keys` is the order of its first two keys, which
\* JSON.stringify writes out and the spread in copy keeps
TagData(keys, name, cid, type, date, pre) ==
  [keys |-> keys, name |-> name, cid |-> cid, type |-> type, date |-> date,
   pre |-> pre]
NoTag == TagData("none", "", Undef, "null", 0, Undef)

\* a caller of the Frontend with a call of set or delete in flight: where
\* the call stands (`pc`), its arguments, what its awaits have handed back
\* so far, what the backend's write of the pointer returned (`cas`), what
\* the call returned (`res`), and, as history, the callers that had a call
\* in flight when this one began (`with`)
Writers == {"w1", "w2"}
Writer(pc, op, content, token, blobtok, cid, tag, tagtok, cas, res, with) ==
  [pc |-> pc, op |-> op, content |-> content, token |-> token,
   blobtok |-> blobtok, cid |-> cid, tag |-> tag, tagtok |-> tagtok,
   cas |-> cas, res |-> res, with |-> with]
Idle == Writer("idle", "none", <<>>, NoToken, NoToken, Undef, NoTag, NoToken,
               "none", "none", {})

\* a stream handed out by a wrapper's readStream and the loop that feeds
\* it: where the loop stands (`pc`), the chunks the inner stream has yet to
\* yield and whether it then fails, the wrapper's transform stream as its
\* consumer sees it (`out`: open, ended or errored), whether the signal
\* has fired, and where the consumer's `for await` stands
Reading(pc, id, inner, fails, out, aborted, consumer) ==
  [pc |-> pc, id |-> id, inner |-> inner, fails |-> fails, out |-> out,
   aborted |-> aborted, consumer |-> consumer]
NoReading == Reading("none", "none", <<>>, FALSE, "none", FALSE, "none")

\* a caller of Files.write or Files.delete with a call in flight: where the
\* call stands, its arguments, the hash it read under the lock, whether it
\* has a Lock handle it has not released yet, whether the lock file now on
\* disk is the one it created (history), what the call returned, and the
\* callers that had a call in flight when this one began (history)
Callers == {"c1", "c2"}
Caller(pc, op, content, token, current, handle, made, res, with) ==
  [pc |-> pc, op |-> op, content |-> content, token |-> token,
   current |-> current, handle |-> handle, made |-> made, res |-> res,
   with |-> with]
NoCall ==
  Caller("idle", "none", <<>>, NoToken, Undef, FALSE, FALSE, "none", {})

\* a stream decryptor at work: the bytes of the inner stream, how many of
\* them have been written to the transform, the transform's state, and the
\* plaintext and key of the frame the bytes are (history)
Feed(pc, input, framed, content, at, d) ==
  [pc |-> pc, input |-> input, framed |-> framed, content |-> content,
   at |-> at, d |-> d]
NoFeed == Feed("idle", <<>>, FALSE, <<>>, 0, NewDecryptor)

InitWith(bs) ==
  /\ backend \in bs
  /\ mem = Empty
  /\ files = Empty
  /\ sidecar = Empty
  /\ locks = {}
  /\ objects = Empty
  /\ held = NoToken
  /\ ghost = NoGhost
  /\ last = Call("none", "none", "none", "none", "none")
  /\ writers = [w \in Writers |-> Idle]
  /\ installs = [n \in Names |-> <<>>]
  /\ now = 1
  /\ reading = NoReading
  /\ callers = [c \in Callers |-> NoCall]
  /\ feed = NoFeed

Init == InitWith(Backends)

Next ==
  \/ \E id \in Ids, content \in Contents, type \in TypeArgs,
        tk \in TokenKinds, k \in KeysOf(backend) :
       DoWrite(id, content, type, tk, k)
  \/ \E id \in Ids, chunks \in ChunkSeqs, type \in TypeArgs,
        tk \in TokenKinds, k \in KeysOf(backend) :
       DoWriteStream(id, chunks, type, tk, k)
  \/ \E id \in Ids, tk \in TokenKinds : DoDelete(id, tk)
  \/ \E source \in Ids, target \in Ids : DoRename(source, target)
  \/ \E id \in Ids : DoToken(id)
  \/ \E content \in Contents : DoOtherToken(content)

Spec == Init /\ [][Next]_vars

\* one family of stacks at a time
SpecMemory == InitWith({"Memory"}) /\ [][Next]_vars
SpecFiles == InitWith({"Files"}) /\ [][Next]_vars
SpecBucket == InitWith({"Bucket"}) /\ [][Next]_vars
SpecBase == InitWith({"Memory", "Files"}) /\ [][Next]_vars
SpecBackends == InitWith({"Memory", "Files", "Bucket"}) /\ [][Next]_vars

\* Memory under a caller that also writes with the token it has just read
NextCas ==
  \/ Next
  \/ \E id \in Ids, content \in Contents, type \in TypeArgs :
       DoWrite(id, content, type, "fresh", "k1")

SpecCas == InitWith({"Memory"}) /\ [][NextCas]_vars

\* the stacks with a stream form of their own, written without a token and
\* emptied again with the token of what is stored
Stacks == {"Memory", "Files", "Secret", "Asymetric", "Compression"}
NextStacks ==
  \/ \E id \in Ids, content \in Contents, type \in TypeArgs,
        k \in KeysOf(backend) :
       DoWrite(id, content, type, "none", k)
  \/ \E id \in Ids, chunks \in ChunkSeqs, type \in TypeArgs,
        k \in KeysOf(backend) :
       DoWriteStream(id, chunks, type, "none", k)
  \/ \E id \in Ids : DoDelete(id, "held")
  \/ \E id \in Ids : DoToken(id)

SpecStacks == InitWith(Stacks) /\ [][NextStacks]_vars

(***************************************************************************)
(* The encrypting wrappers over an inner backend that is also written      *)
(* without them: bytes stored before the wrapper was applied, and stored   *)
(* frames of which one byte is altered.                                    *)
(***************************************************************************)
Wrappers == {"Secret", "Asymetric"}
\* the four bytes by which a wrapper knows its own frames
HeaderOf(b) == IF b = "Secret" THEN SKE ELSE AKE
FrameOf(b, k, content) ==
  IF b = "Secret" THEN SecretFrame(k, content) ELSE AsymetricFrame(k, content)
\* byte strings stored without the wrapper: any content, also behind the
\* four bytes of a header
RawContents ==
  Contents \cup {SKE \o c : c \in Contents} \cup {AKE \o c : c \in Contents}

\* inner.write(id, raw, type): a write that does not go through the wrapper
RawWrite(id, raw, type) ==
  \E r \in {InMem(Cur, MemoryWrite(mem, id, raw, type, NoToken))} :
      /\ Install(r)
      /\ Touch({id}, r)
      /\ last' = Call("raw", id, "none", "none", r.res)
      /\ UNCHANGED <<feed, reading, callers, backend, held, writers, installs, now>>

NextRaw ==
  \/ \E id \in Ids, raw \in RawContents, type \in TypeArgs :
       RawWrite(id, raw, type)
  \/ \E id \in Ids, content \in Contents, type \in TypeArgs,
        k \in KeysOf(backend) :
       DoWrite(id, content, type, "none", k)

SpecRaw == InitWith(Wrappers) /\ [][NextRaw]_vars

\* the id whose stored frame is altered, and the values a byte is set to
Altered == "a"
AlteredBytes == {B(0), B(255)}
\* the bytes under the id are a frame as the wrapper wrote it
Pristine(b, m, id) ==
  /\ id \in DOMAIN m
  /\ \E k \in DataKeys, content \in Contents : m[id].data = FrameOf(b, k, content)
\* one byte of the stored frame is set to another value
Tamper(id) ==
  /\ Pristine(backend, mem, id)
  /\ \E at \in 1..Len(mem[id].data), byte \in AlteredBytes :
       /\ mem[id].data[at] # byte
       /\ mem' = [mem EXCEPT ![id].data[at] = byte]
       /\ last' = Call("tamper", id, at, "none", "true")
  /\ UNCHANGED <<feed, reading, callers, backend, files, sidecar, locks, objects, held, ghost, writers,
                 installs, now>>

NextTamper ==
  \/ \E content \in Contents, type \in TypeArgs, k \in KeysOf(backend) :
       DoWrite(Altered, content, type, "none", k)
  \/ Tamper(Altered)

SpecTamper == InitWith(Wrappers) /\ [][NextTamper]_vars

(***************************************************************************)
(* The stream decryptors of Secret and Asymetric fed chunk by chunk: the   *)
(* inner stream delivers the stored bytes in any split, each chunk is one  *)
(* call of transform, and final is called when the bytes are through. The  *)
(* stored bytes are a frame of the wrapper or bytes written without it.    *)
(***************************************************************************)
\* longest byte string stored without the wrapper
MaxRaw == 6
\* bytes stored without the wrapper, all different
RawStreams == {[i \in 1..n |-> B(48 + i)] : n \in 0..MaxRaw}

TransformOf(b, d, piece) ==
  IF b = "Secret" THEN SecretTransform(d, piece)
  ELSE AsymetricTransform(d, piece)

\* readStream(id) of a stored frame: pipe(stream, decrypt) begins
FeedFrame(k, content) ==
  /\ feed.pc \in {"idle", "ended"}
  /\ feed' = Feed("feeding", FrameOf(backend, k, content), TRUE, content, 0,
                  NewDecryptor)
  /\ UNCHANGED <<reading, callers, backend, mem, files, sidecar, locks,
                 objects, held, ghost, last, writers, installs, now>>

\* readStream(id) of bytes stored without the wrapper
FeedRaw(raw) ==
  /\ feed.pc \in {"idle", "ended"}
  /\ feed' = Feed("feeding", raw, FALSE, raw, 0, NewDecryptor)
  /\ UNCHANGED <<reading, callers, backend, mem, files, sidecar, locks,
                 objects, held, ghost, last, writers, installs, now>>

\* the inner stream yields its next n bytes: output.write(chunk)
FeedChunk(n) ==
  /\ feed.pc = "feeding"
  /\ n \in 1..(Len(feed.input) - feed.at)
  /\ \E d \in {TransformOf(backend, feed.d,
                           SubSeq(feed.input, feed.at + 1, feed.at + n))} :
       feed' = [feed EXCEPT !.at = @ + n, !.d = d]
  /\ UNCHANGED <<reading, callers, backend, mem, files, sidecar, locks,
                 objects, held, ghost, last, writers, installs, now>>

\* the inner stream is through: output.end() calls final
FeedFinal ==
  /\ feed.pc = "feeding"
  /\ feed.at = Len(feed.input)
  /\ \E d \in {DecryptorFinal(feed.d)} :
       feed' = [feed EXCEPT !.pc = "ended", !.d = d]
  /\ UNCHANGED <<reading, callers, backend, mem, files, sidecar, locks,
                 objects, held, ghost, last, writers, installs, now>>

NextFeed ==
  \/ \E k \in {"k1"}, content \in Contents : FeedFrame(k, content)
  \/ \E raw \in RawStreams : FeedRaw(raw)
  \/ \E n \in 1..(PreambleLen + RsaLen + TagLen + MaxLen) : FeedChunk(n)
  \/ FeedFinal

SpecFeed == InitWith(Wrappers) /\ [][NextFeed]_vars

(***************************************************************************)
(* Frontend: content-addressed blobs and named, versioned values on top    *)
(* of a backend. A blob lives under the SHA-512 of its bytes; a name owns  *)
(* one pointer slot, nameId(name), whose text is the id of the name's      *)
(* newest tag; a tag is a JSON blob {name, cid, type, date, pre}.          *)
(***************************************************************************)
\* nameId(name): '-' followed by the hash of the name
NameId(name) == <<"-sha512", name>>

\* Buffer.from(cid): the text of a content id as stored bytes, and
\* content.toString('utf-8') read back as the id it spells
HexBytes(cid) == <<cid>>
IdOfText(text) ==
  IF Len(text) = 1 /\ text[1][1] = "sha512" THEN text[1] ELSE <<"text", text>>


\* Buffer.from(JSON.stringify(tagdata)) and JSON.parse of a blob's text
JsonBytes(tagdata) == << <<"json", tagdata>> >>
JsonParse(text) ==
  IF Len(text) = 1 /\ text[1][1] = "json"
  THEN [ok |-> TRUE, value |-> text[1][2]]
  ELSE [ok |-> FALSE, value |-> NoTag]

\* the value of a one-element set: `Only({e(x) : x \in {v}})` is e of v,
\* with v worked out once
Only(s) == CHOOSE x \in s : TRUE

\* what #text resolves to: a text, null, or an exception of the backend
NoText(S, threw) ==
  [null |-> TRUE, text |-> <<>>, threw |-> threw, written |-> "none", S |-> S]
\* #text(cid): the stored content as text
TextRead(b, S, cid) ==
  Only({IF r.type = "throw" THEN NoText(S, TRUE)
        ELSE IF ~r.found THEN NoText(S, FALSE)
        ELSE [null |-> FALSE, text |-> r.content, threw |-> FALSE,
              written |-> "none", S |-> S] :
        r \in {Read(b, S, cid)}})
\* #text(cid, cnt, type, token): the write's result is dropped, the stored
\* content is read back
Text(b, S, cid, cnt, type, token, k) ==
  Only({IF w.res = "throw" THEN NoText(w.S, TRUE)
        ELSE [TextRead(b, w.S, cid) EXCEPT !.written = w.res] :
        w \in {Write(b, S, cid, HexBytes(cnt), type, token, k)}})

\* a JavaScript test `!text`
Falsy(t) == t.null \/ t.text = <<>>

FrontendExists(b, S, cid) == Exists(b, S, cid)
FrontendType(b, S, cid) == TypeOf(b, S, cid)

\* what push resolves to once the backend's write has
Pushed(cid, w) ==
  [res |-> CASE w.res = "true" -> "cid"
             [] w.res = "throw" -> "throw"
             [] OTHER -> "null",
   cid |-> IF w.res = "true" THEN cid ELSE Undef,
   S |-> w.S]
\* a push that writes without asking for the blob's token
PushNoToken(b, S, content, type, k) ==
  Only({Pushed(Hash(content), w) :
        w \in {Write(b, S, Hash(content), content, TypeOr(type), NoToken, k)}})

\* push: the cid, or null when the backend's write returns false
Push(b, S, content, type, k) ==
  Only({Pushed(Hash(content), w) :
        w \in {Write(b, S, Hash(content), content, TypeOr(type),
                     TokenOf(b, S, Hash(content)), k)}})

\* pull: the content read() returns, without its type, or null
NoPull(threw) == [found |-> FALSE, content |-> <<>>, threw |-> threw]
Pull(b, S, cid) ==
  Only({IF r.type = "throw" THEN NoPull(TRUE)
        ELSE IF ~r.found THEN NoPull(FALSE)
        ELSE [found |-> TRUE, content |-> r.content, threw |-> FALSE] :
        r \in {Read(b, S, cid)}})

\* pushStream: writeStream under a temporary name, then rename to the hash
\* of the chunks that went through; neither result is looked at
PushStream(b, S, chunks, type, k, uuid) ==
  Only({IF w.res = "throw" THEN [res |-> "throw", cid |-> Undef, S |-> w.S]
        ELSE [res |-> "cid", cid |-> Hash(Concat(chunks)),
              S |-> Rename(b, w.S, NameId(uuid), Hash(Concat(chunks))).S] :
        w \in {WriteStream(b, S, NameId(uuid), chunks, TypeOr(type), NoToken,
                           k)}})

PullStream(b, S, cid) == ReadStream(b, S, cid)

\* tag(name): the name's newest tag, null, or an exception
NullTag(threw) == [null |-> TRUE, tag |-> NoTag, threw |-> threw]
TagOfText(t) ==
  IF t.threw THEN NullTag(TRUE)
  ELSE Only({IF ~j.ok THEN NullTag(TRUE)
             ELSE [null |-> FALSE, tag |-> j.value, threw |-> FALSE] :
             j \in {JsonParse(t.text)}})
TagAt(b, S, tid) ==
  Only({IF txt.threw THEN NullTag(TRUE)
        ELSE IF Falsy(txt) THEN NullTag(FALSE)
        ELSE TagOfText(txt) :
        txt \in {TextRead(b, S, tid)}})
Tag(b, S, name) ==
  Only({IF tid.threw THEN NullTag(TRUE)
        ELSE IF Falsy(tid) THEN NullTag(FALSE)
        ELSE TagAt(b, S, IdOfText(tid.text)) :
        tid \in {TextRead(b, S, NameId(name))}})

\* JSON.parse((await #text(tag.pre)) ?? 'null') in the loop of tags
TagBefore(b, S, pre) ==
  Only({IF txt.threw THEN NullTag(TRUE)
        ELSE IF txt.null THEN NullTag(FALSE)
        ELSE TagOfText(txt) :
        txt \in {TextRead(b, S, pre)}})

\* the ids a backend stores something under
Stored(b, S) ==
  CASE b = "Files" -> DOMAIN S.F.files \cup DOMAIN S.F.sidecar
    [] b = "Bucket" -> DOMAIN S.objects
    [] OTHER -> DOMAIN S.mem

\* tags(name): the tags the generator yields, newest first, and whether it
\* ends in an exception; a chain of tags is no longer than the store
RECURSIVE TagsFrom(_, _, _, _)
TagsFrom(b, S, t, fuel) ==
  IF t.threw THEN [tags |-> <<>>, error |-> TRUE]
  ELSE IF t.null \/ fuel = 0 THEN [tags |-> <<>>, error |-> FALSE]
  ELSE IF t.tag.pre = Undef THEN [tags |-> <<t.tag>>, error |-> FALSE]
  ELSE Only({[tags |-> <<t.tag>> \o rest.tags, error |-> rest.error] :
             rest \in {Only({TagsFrom(b, S, u, fuel - 1) :
                             u \in {TagBefore(b, S, t.tag.pre)}})}})
Tags(b, S, name) ==
  Only({TagsFrom(b, S, t, Cardinality(Stored(b, S))) :
        t \in {Tag(b, S, name)}})

Has(b, S, name) ==
  Only({IF t.threw THEN "throw"
        ELSE IF t.null \/ t.tag.cid = Undef THEN "false"
        ELSE IF FrontendExists(b, S, t.tag.cid) THEN "true" ELSE "false" :
        t \in {Tag(b, S, name)}})

Get(b, S, name) ==
  Only({IF t.threw THEN NoPull(TRUE)
        ELSE IF t.null \/ t.tag.cid = Undef THEN NoPull(FALSE)
        ELSE Pull(b, S, t.tag.cid) :
        t \in {Tag(b, S, name)}})

FrontendReadStream(b, S, name) ==
  Only({IF t.threw THEN [chunks |-> <<>>, error |-> TRUE]
        ELSE IF t.null \/ t.tag.cid = Undef THEN Stream(<<>>)
        ELSE PullStream(b, S, t.tag.cid) :
        t \in {Tag(b, S, name)}})

FrontendToken(b, S, name) == TokenOf(b, S, NameId(name))

\* what a mutation of a name resolves to: its result, the state it leaves,
\* what the backend's write of the pointer returned, and the tag it pushed
Mutation(res, S, cas, tid) == [res |-> res, S |-> S, cas |-> cas, tid |-> tid]
Thrown(S) == Mutation("throw", S, "none", Undef)

\* `#text(nid, tid, 'text/sha-512', token)` for the tag push p handed back,
\* and the result made of what it read: non-null for set and writeStream,
\* the tid itself for copy and delete
Repoint(b, p, nid, token, k, same) ==
  IF p.res = "throw" THEN Thrown(p.S)
  ELSE IF p.res = "null" THEN Mutation("false", p.S, "none", Undef)
  ELSE Only({IF w.threw THEN Mutation("throw", w.S, "throw", Undef)
             ELSE Mutation(IF ~w.null /\ (same => w.text = HexBytes(p.cid))
                           THEN "true" ELSE "false",
                           w.S, w.written, p.cid) :
             w \in {Text(b, p.S, nid, p.cid, "text/sha-512", token, k)}})

\* the tail shared by set and writeStream, from `const nid = nameId(name)`
Point(b, S, name, cid, type, token, date, k) ==
  Only({IF pre.threw THEN Thrown(S)
        ELSE Only({Repoint(b, p, NameId(name), token, k, FALSE) :
                   p \in {Push(b, S,
                               JsonBytes(TagData("name", name, cid, type, date,
                                  IF pre.null THEN Undef
                                  ELSE IdOfText(pre.text))),
                               "application/json; charset=utf-8", k)}}) :
        pre \in {TextRead(b, S, NameId(name))}})

Set(b, S, name, content, type, token, date, k) ==
  Only({IF p.res = "throw" THEN Thrown(p.S)
        ELSE Point(b, p.S, name, p.cid, TypeOr(type), token, date, k) :
        p \in {Push(b, S, content, TypeOr(type), k)}})

FrontendWriteStream(b, S, name, chunks, type, token, date, k, uuid) ==
  Only({IF p.res = "throw" THEN Thrown(p.S)
        ELSE Point(b, p.S, name, p.cid, TypeOr(type), token, date, k) :
        p \in {PushStream(b, S, chunks, type, k, uuid)}})

Copy(b, S, source, target, token, k) ==
  Only({IF pre.threw \/ tag.threw THEN Thrown(S)
        ELSE IF Falsy(pre) \/ tag.null THEN Mutation("false", S, "none", Undef)
        ELSE Only({Repoint(b, p, NameId(target), token, k, TRUE) :
                   p \in {Push(b, S,
                               JsonBytes([tag.tag EXCEPT
                                            !.pre = IdOfText(pre.text),
                                            !.name = target]),
                               "application/json; charset=utf-8", k)}}) :
        pre \in {TextRead(b, S, NameId(source))}, tag \in {Tag(b, S, source)}})

\* a delete whose tombstone forgets the tag it replaces
FrontendDeleteForgets(b, S, name, token, date, k) ==
  Only({IF pre.threw THEN Thrown(S)
        ELSE IF Falsy(pre) THEN Mutation("true", S, "none", Undef)
        ELSE Only({Repoint(b, p, NameId(name), token, k, TRUE) :
                   p \in {Push(b, S,
                               JsonBytes(TagData("cid", name, Undef,
                                                 "application/empty", date,
                                                 Undef)),
                               "application/json", k)}}) :
        pre \in {TextRead(b, S, NameId(name))}})

FrontendDelete(b, S, name, token, date, k) ==
  Only({IF pre.threw THEN Thrown(S)
        ELSE IF Falsy(pre) THEN Mutation("true", S, "none", Undef)
        ELSE Only({Repoint(b, p, NameId(name), token, k, TRUE) :
                   p \in {Push(b, S,
                               JsonBytes(TagData("cid", name, Undef,
                                                 "application/empty", date,
                                                 IdOfText(pre.text))),
                               "application/json", k)}}) :
        pre \in {TextRead(b, S, NameId(name))}})

(***************************************************************************)
(* The Frontend's caller, one call at a time. `held` is the token it got   *)
(* from token(name); `now` is the clock Date.now() reads; `installs` is    *)
(* history: for each name the tags whose pointer write the backend         *)
(* accepted, newest first.                                                 *)
(***************************************************************************)
\* the temporary name of a pushStream: a uuid no earlier call has left behind
Fresh(uuid) == NameId(uuid) \notin Stored(backend, Cur)
NextUuid(uuid) == Fresh(uuid) /\ \A i \in 1..Len(Uuids) :
                    Uuids[i] = uuid => \A j \in 1..(i - 1) : ~Fresh(Uuids[j])

\* the store has room for what one more call leaves behind
Room == Cardinality(Stored(backend, Cur)) <= MaxStored

Installed(name, r) ==
  installs' = IF r.cas = "true"
              THEN [installs EXCEPT ![name] = <<r.tid>> \o @]
              ELSE installs

\* what push and pushStream hand back: the cid, or a mark for null or an
\* exception
Handed(r) == IF r.res = "cid" THEN r.cid ELSE <<r.res>>
\* the token push passes on: the one token(cid) returns, if it returns one
Passed(cid) == IF TokenOf(backend, Cur, cid) = NoToken THEN "none" ELSE "fresh"

CallPush(content, type, k) ==
  /\ Room
  /\ \E r \in {Push(backend, Cur, content, type, k)} :
      /\ Install(r)
      /\ last' = Call("push", Hash(content), "none", Passed(Hash(content)),
                      Handed(r))
      /\ UNCHANGED <<feed, reading, callers, backend, held, ghost, writers, installs, now>>

CallPushStream(chunks, type, k, uuid) ==
  /\ Room
  /\ NextUuid(uuid)
  /\ \E r \in {PushStream(backend, Cur, chunks, type, k, uuid)} :
      /\ Install(r)
      /\ last' = Call("pushStream", Hash(Concat(chunks)), "none",
                      Passed(Hash(Concat(chunks))), Handed(r))
      /\ UNCHANGED <<feed, reading, callers, backend, held, ghost, writers, installs, now>>

CallSet(name, content, type, tk, date, k) ==
  /\ Room
  /\ Usable(tk, NameId(name))
  /\ date >= now
  /\ \E r \in {Set(backend, Cur, name, content, type, Tok(tk, NameId(name)),
                   date, k)} :
      /\ Install(r)
      /\ Installed(name, r)
      /\ last' = Call("set", name, "none", tk, r.res)
      /\ now' = date
      /\ UNCHANGED <<feed, reading, callers, backend, held, ghost, writers>>

CallWriteStream(name, chunks, type, tk, date, k, uuid) ==
  /\ Room
  /\ Usable(tk, NameId(name))
  /\ NextUuid(uuid)
  /\ date >= now
  /\ \E r \in {FrontendWriteStream(backend, Cur, name, chunks, type,
                                   Tok(tk, NameId(name)), date, k, uuid)} :
      /\ Install(r)
      /\ Installed(name, r)
      /\ last' = Call("writeStream", name, "none", tk, r.res)
      /\ now' = date
      /\ UNCHANGED <<feed, reading, callers, backend, held, ghost, writers>>

CallCopy(source, target, tk, k) ==
  /\ Room
  /\ Usable(tk, NameId(target))
  /\ \E r \in {Copy(backend, Cur, source, target, Tok(tk, NameId(target)),
                    k)} :
      /\ Install(r)
      /\ Installed(target, r)
      /\ last' = Call("copy", source, target, tk, r.res)
      /\ UNCHANGED <<feed, reading, callers, backend, held, ghost, writers, now>>

CallDelete(name, tk, date, k) ==
  /\ Room
  /\ Usable(tk, NameId(name))
  /\ date >= now
  /\ \E r \in {FrontendDelete(backend, Cur, name, Tok(tk, NameId(name)),
                              date, k)} :
      /\ Install(r)
      /\ Installed(name, r)
      /\ last' = Call("delete", name, "none", tk, r.res)
      /\ now' = date
      /\ UNCHANGED <<feed, reading, callers, backend, held, ghost, writers>>

\* token(name): the caller keeps the token it returns
CallToken(name) ==
  /\ FrontendToken(backend, Cur, name) # NoToken
  /\ held' = FrontendToken(backend, Cur, name)
  /\ last' = Call("token", name, "none", "none", "true")
  /\ UNCHANGED <<feed, reading, callers, backend, mem, files, sidecar, locks, objects, ghost, writers,
                 installs, now>>

NextFrontend ==
  \/ \E content \in Contents, type \in TypeArgs, k \in KeysOf(backend) :
       CallPush(content, type, k)
  \/ \E chunks \in ChunkSeqs, type \in TypeArgs, k \in KeysOf(backend),
        uuid \in Range(Uuids) :
       CallPushStream(chunks, type, k, uuid)
  \/ \E name \in Names, content \in Contents, type \in TypeArgs,
        tk \in TokenKinds, date \in Dates, k \in KeysOf(backend) :
       CallSet(name, content, type, tk, date, k)
  \/ \E name \in Names, chunks \in ChunkSeqs, type \in TypeArgs,
        tk \in TokenKinds, date \in Dates, k \in KeysOf(backend),
        uuid \in Range(Uuids) :
       CallWriteStream(name, chunks, type, tk, date, k, uuid)
  \/ \E source \in Names, target \in Names, tk \in TokenKinds,
        k \in KeysOf(backend) :
       CallCopy(source, target, tk, k)
  \/ \E name \in Names, tk \in TokenKinds, date \in Dates,
        k \in KeysOf(backend) :
       CallDelete(name, tk, date, k)
  \/ \E name \in Names : CallToken(name)

\* the Frontend over the backends its tests run it over
SpecFrontend == InitWith({"Memory", "Files"}) /\ [][NextFrontend]_vars

\* names only: the mutations of a name and token(name)
NextNames ==
  \/ \E name \in Names, content \in Contents, type \in TypeArgs,
        tk \in TokenKinds, date \in Dates, k \in KeysOf(backend) :
       CallSet(name, content, type, tk, date, k)
  \/ \E name \in Names, chunks \in ChunkSeqs, type \in TypeArgs,
        tk \in TokenKinds, date \in Dates, k \in KeysOf(backend),
        uuid \in Range(Uuids) :
       CallWriteStream(name, chunks, type, tk, date, k, uuid)
  \/ \E source \in Names, target \in Names, tk \in TokenKinds,
        k \in KeysOf(backend) :
       CallCopy(source, target, tk, k)
  \/ \E name \in Names, tk \in TokenKinds, date \in Dates,
        k \in KeysOf(backend) :
       CallDelete(name, tk, date, k)
  \/ \E name \in Names : CallToken(name)
SpecNames == InitWith({"Memory", "Files"}) /\ [][NextNames]_vars

(***************************************************************************)
(* Longer histories of the names: the same four calls, one at a time, with *)
(* one content, the default type and the token `token(name)` returns just *)
(* before the call, so that a name can be set and then be the target of a  *)
(* copy within the bound on the store.                                     *)
(***************************************************************************)
\* a call of this specification starts only while the store holds at most
\* this many ids
MaxHistory == 6
\* and while each name has had at most this many accepted pointer writes
MaxInstalls == 2
Roomy == /\ Cardinality(Stored(backend, Cur)) <= MaxHistory
         /\ \A name \in Names : Len(installs[name]) <= MaxInstalls
Told == <<B(48)>>

HistorySet(name) ==
  /\ Roomy
  /\ \E r \in {Set(backend, Cur, name, Told, "undefined",
                   Tok("fresh", NameId(name)), now, "k1")} :
      /\ Install(r)
      /\ Installed(name, r)
      /\ last' = Call("set", name, "none", "fresh", r.res)
      /\ UNCHANGED <<feed, reading, callers, backend, held, ghost, writers,
                     now>>

HistoryWriteStream(name, uuid) ==
  /\ Roomy
  /\ NextUuid(uuid)
  /\ \E r \in {FrontendWriteStream(backend, Cur, name, <<Told>>, "undefined",
                                   Tok("fresh", NameId(name)), now, "k1",
                                   uuid)} :
      /\ Install(r)
      /\ Installed(name, r)
      /\ last' = Call("writeStream", name, "none", "fresh", r.res)
      /\ UNCHANGED <<feed, reading, callers, backend, held, ghost, writers,
                     now>>

HistoryCopy(source, target) ==
  /\ Roomy
  /\ \E r \in {Copy(backend, Cur, source, target,
                    Tok("fresh", NameId(target)), "k1")} :
      /\ Install(r)
      /\ Installed(target, r)
      /\ last' = Call("copy", source, target, "fresh", r.res)
      /\ UNCHANGED <<feed, reading, callers, backend, held, ghost, writers,
                     now>>

HistoryDelete(name) ==
  /\ Roomy
  /\ \E r \in {FrontendDelete(backend, Cur, name,
                              Tok("fresh", NameId(name)), now, "k1")} :
      /\ Install(r)
      /\ Installed(name, r)
      /\ last' = Call("delete", name, "none", "fresh", r.res)
      /\ UNCHANGED <<feed, reading, callers, backend, held, ghost, writers,
                     now>>

NextHistory ==
  \/ \E name \in Names : HistorySet(name)
  \/ \E name \in Names, uuid \in Range(Uuids) : HistoryWriteStream(name, uuid)
  \/ \E source \in Names, target \in Names : HistoryCopy(source, target)
  \/ \E name \in Names : HistoryDelete(name)
SpecHistory == InitWith({"Memory", "Files"}) /\ [][NextHistory]_vars

\* blobs only, over the base backends and over Secret wrapping Memory
NextBlobs ==
  \/ \E content \in Contents, type \in TypeArgs, k \in KeysOf(backend) :
       CallPush(content, type, k)
  \/ \E chunks \in ChunkSeqs, type \in TypeArgs, k \in KeysOf(backend),
        uuid \in Range(Uuids) :
       CallPushStream(chunks, type, k, uuid)
SpecBlobs == InitWith({"Memory", "Files", "Secret"}) /\ [][NextBlobs]_vars

(***************************************************************************)
(* Concurrent callers of set and delete on one name. Every `await` of a    *)
(* backend call in Frontend.set and Frontend.delete is one step of the     *)
(* caller, and steps of different callers interleave freely; the backend   *)
(* call itself (a Memory method has no await inside) is atomic.            *)
(***************************************************************************)
\* the name the concurrent callers work on
Shared == "n1"
Active(w) == writers[w].pc \notin {"idle", "done"}
TidOf(w) == Hash(JsonBytes(writers[w].tag))
\* the call has returned: what is kept is its token, its tag, what the
\* write of the pointer returned and what the call returned
Done(w, res) ==
  [writers[w] EXCEPT !.pc = "done", !.res = res, !.content = <<>>,
                     !.blobtok = NoToken, !.cid = Undef, !.tagtok = NoToken]
\* the token a concurrent caller passes: none, or the one token(name)
\* returns as the call is made
WriterTokens == {"none", "fresh"}

\* set(Shared, content, {token}) or delete(Shared, {token}) is called
Begin(w, op, content, tk) ==
  /\ ~Active(w)
  /\ Room
  /\ Usable(tk, NameId(Shared))
  /\ op = "delete" => content = <<>>
  /\ writers' = [v \in Writers |->
       IF v = w
       THEN Writer(IF op = "set" THEN "push-token" ELSE "pre", op, content,
                   Tok(tk, NameId(Shared)), NoToken, Undef, NoTag, NoToken,
                   "none", "none", {u \in Writers : Active(u)})
       ELSE [writers[v] EXCEPT !.with = @ \ {w}]]
  /\ UNCHANGED <<feed, reading, callers, backend, mem, files, sidecar, locks, objects, held, ghost,
                 last, installs, now>>

\* push(content): `await this.#back.token(cid)`
PushToken(w) ==
  /\ writers[w].pc = "push-token"
  /\ writers' = [writers EXCEPT ![w].pc = "push-write",
                   ![w].blobtok = TokenOf(backend, Cur, Hash(writers[w].content))]
  /\ UNCHANGED <<feed, reading, callers, backend, mem, files, sidecar, locks, objects, held, ghost,
                 last, installs, now>>

\* push(content): `await this.#back.write(cid, content, type, token)`
PushWrite(w) ==
  /\ writers[w].pc = "push-write"
  /\ \E r \in {Write(backend, Cur, Hash(writers[w].content), writers[w].content,
                     DefaultType, writers[w].blobtok, "k1")} :
      /\ Install(r)
      /\ writers' = [writers EXCEPT ![w] =
           IF r.res = "throw" THEN Done(w, "throw")
           ELSE [writers[w] EXCEPT !.pc = "pre", !.blobtok = NoToken,
                   !.cid = Pushed(Hash(writers[w].content), r).cid]]
  /\ UNCHANGED <<feed, reading, callers, backend, held, ghost, last, installs, now>>

\* `pre = await this.#text(nid)`, then the tag is built with Date.now()
ReadPre(w, date) ==
  /\ writers[w].pc = "pre"
  /\ date >= now
  /\ \E pre \in {TextRead(backend, Cur, NameId(Shared))} :
      IF pre.threw
        THEN writers' = [writers EXCEPT ![w] = Done(w, "throw")] /\ date = now
      ELSE IF writers[w].op = "delete" /\ Falsy(pre)
        THEN writers' = [writers EXCEPT ![w] = Done(w, "true")] /\ date = now
      ELSE writers' = [writers EXCEPT ![w].pc = "tag-token",
                         ![w].content = <<>>, ![w].cid = Undef, ![w].tag =
             IF writers[w].op = "set"
             THEN TagData("name", Shared, writers[w].cid, DefaultType, date,
                          IF pre.null THEN Undef ELSE IdOfText(pre.text))
             ELSE TagData("cid", Shared, Undef, "application/empty", date,
                          IdOfText(pre.text))]
  /\ now' = date
  /\ UNCHANGED <<feed, reading, callers, backend, mem, files, sidecar, locks, objects, held, ghost,
                 last, installs>>

\* push(tag): `await this.#back.token(tid)`
TagToken(w) ==
  /\ writers[w].pc = "tag-token"
  /\ writers' = [writers EXCEPT ![w].pc = "tag-write",
                   ![w].tagtok = TokenOf(backend, Cur, TidOf(w))]
  /\ UNCHANGED <<feed, reading, callers, backend, mem, files, sidecar, locks, objects, held, ghost,
                 last, installs, now>>

\* a push of the tag that handed back the tid without the write: the
\* pointer would be written for a tag that is not stored
TagWriteLost(w) ==
  /\ writers[w].pc = "tag-write"
  /\ writers' = [writers EXCEPT ![w].pc = "point", ![w].tagtok = NoToken]
  /\ UNCHANGED <<feed, reading, callers, backend, mem, files, sidecar, locks, objects, held, ghost,
                 last, installs, now>>

\* push(tag): `await this.#back.write(tid, json, type, token)`; a null tid
\* makes the call return false
TagWrite(w) ==
  /\ writers[w].pc = "tag-write"
  /\ \E r \in {Write(backend, Cur, TidOf(w), JsonBytes(writers[w].tag),
                     IF writers[w].op = "set"
                     THEN "application/json; charset=utf-8"
                     ELSE "application/json",
                     writers[w].tagtok, "k1")} :
      /\ Install(r)
      /\ writers' = [writers EXCEPT ![w] =
           IF r.res = "true"
           THEN [writers[w] EXCEPT !.pc = "point", !.tagtok = NoToken]
           ELSE Done(w, IF r.res = "throw" THEN "throw" ELSE "false")]
  /\ UNCHANGED <<feed, reading, callers, backend, held, ghost, last, installs, now>>

\* #text(nid, tid, ...): `await this.#back.write(nid, tid, type, token)`
PointWrite(w) ==
  /\ writers[w].pc = "point"
  /\ \E r \in {Write(backend, Cur, NameId(Shared), HexBytes(TidOf(w)),
                     "text/sha-512", writers[w].token, "k1")} :
      /\ Install(r)
      /\ installs' = IF r.res = "true"
                     THEN [installs EXCEPT ![Shared] = <<TidOf(w)>> \o @]
                     ELSE installs
      /\ writers' = [writers EXCEPT ![w] =
           IF r.res = "throw" THEN [Done(w, "throw") EXCEPT !.cas = "throw"]
           ELSE [writers[w] EXCEPT !.pc = "read-back", !.cas = r.res]]
  /\ UNCHANGED <<feed, reading, callers, backend, held, ghost, last, now>>

\* #text(nid, tid, ...): `await this.#back.read(nid)`, and the call returns
PointRead(w) ==
  /\ writers[w].pc = "read-back"
  /\ \E t \in {TextRead(backend, Cur, NameId(Shared))} :
      writers' = [writers EXCEPT ![w] =
        Done(w, IF t.threw THEN "throw"
                ELSE IF writers[w].op = "set"
                  THEN (IF t.null THEN "false" ELSE "true")
                ELSE IF ~t.null /\ t.text = HexBytes(TidOf(w)) THEN "true"
                ELSE "false")]
  /\ UNCHANGED <<feed, reading, callers, backend, mem, files, sidecar, locks, objects, held, ghost,
                 last, installs, now>>

NextWriters ==
  \/ \E w \in Writers, op \in {"set", "delete"}, content \in Contents,
        tk \in WriterTokens :
       Begin(w, op, content, tk)
  \/ \E w \in Writers : PushToken(w)
  \/ \E w \in Writers : PushWrite(w)
  \/ \E w \in Writers, date \in Dates : ReadPre(w, date)
  \/ \E w \in Writers : TagToken(w)
  \/ \E w \in Writers : TagWrite(w)
  \/ \E w \in Writers : PointWrite(w)
  \/ \E w \in Writers : PointRead(w)

SpecWriters == InitWith({"Memory"}) /\ [][NextWriters]_vars

(***************************************************************************)
(* All four mutations of the names over Memory: set and delete of the      *)
(* shared name by concurrent callers, await by await, and between them     *)
(* whole calls of writeStream and copy on either name.                     *)
(***************************************************************************)
Quiet == \A w \in Writers : ~Active(w)
\* the one content the calls of this specification store
Kept == <<B(48)>>
NextPointers ==
  \/ \E w \in Writers, op \in {"set", "delete"}, tk \in WriterTokens :
       Begin(w, op, IF op = "set" THEN Kept ELSE <<>>, tk)
  \/ \E w \in Writers : PushToken(w)
  \/ \E w \in Writers : PushWrite(w)
  \/ \E w \in Writers : ReadPre(w, now)
  \/ \E w \in Writers : TagToken(w)
  \/ \E w \in Writers : TagWrite(w)
  \/ \E w \in Writers : PointWrite(w)
  \/ \E w \in Writers : PointRead(w)
  \/ /\ Quiet
     /\ \E name \in Names, tk \in WriterTokens, uuid \in Range(Uuids) :
          CallWriteStream(name, <<Kept>>, "undefined", tk, now, "k1", uuid)
  \/ /\ Quiet
     /\ \E source \in Names, target \in Names, tk \in WriterTokens :
          CallCopy(source, target, tk, "k1")
SpecPointers == InitWith({"Memory"}) /\ [][NextPointers]_vars

(***************************************************************************)
(* Frontend.pushStream, await by await. The caller's stream yields its     *)
(* chunks one at a time and may throw instead, and the call may be         *)
(* cancelled between two chunks; Files.writeStream writes each chunk to    *)
(* the file of the temporary name as it comes, Memory.writeStream keeps    *)
(* the chunks to itself until the stream ends. The stacks followed here    *)
(* are the two backends and Compression over each of them.                 *)
(***************************************************************************)
StreamStacks == {"Memory", "Files", "Compression", "Compression/Files"}
\* the backend that stores what the stack writes
BaseOf(b) ==
  IF b \in {"Files", "Compression/Files", "Secret/Files", "Asymetric/Files"}
  THEN "Files" ELSE "Memory"
Compressing(b) == b \in {"Compression", "Compression/Files"}
\* what the stack has handed its backend once the caller's stream has
\* yielded `content`
Emitted(b, content) == IF Compressing(b) THEN Compress(content) ELSE content
\* what pullStream yields for an id through the stack
StreamBytes(b, S, id) ==
  LET source == ReadStream(BaseOf(b), S, id)
  IN  IF Compressing(b) THEN Decompress(Concat(source.chunks))
      ELSE [ok |-> ~source.error, data |-> Concat(source.chunks)]

\* the uuid a caller's pushStream draws
UuidOf(w) == IF w = "w1" THEN Uuids[1] ELSE Uuids[2]
TmpOf(w) == NameId(UuidOf(w))
\* pushStream has returned: what writeStream had returned (`cas`), and
\* the cid handed back
Streamed(w, res, cid) ==
  [writers[w] EXCEPT !.pc = "done", !.res = res, !.cid = cid,
                     !.content = <<>>]

\* pushStream(stream) is called: tmpnam and the hash are made
StreamBegin(w) ==
  /\ ~Active(w)
  /\ TmpOf(w) \notin Stored(BaseOf(backend), Cur)
  /\ writers' = [writers EXCEPT ![w] =
       Writer("open", "pushStream", <<>>, NoToken, NoToken, TmpOf(w), NoTag,
              NoToken, "none", "none", {})]
  /\ UNCHANGED <<feed, reading, callers, backend, mem, files, sidecar, locks, objects, held, ghost,
                 last, installs, now>>

\* writeStream(tmpnam, reader(), type, undefined, signal) up to its loop:
\* Files creates the file, Memory an empty array
StreamOpen(w) ==
  /\ writers[w].pc = "open"
  /\ writers' = [writers EXCEPT ![w].pc = "stream"]
  /\ files' = IF BaseOf(backend) = "Files"
              THEN WriteFile(files, writers[w].cid, <<>>, "wx")
              ELSE files
  /\ UNCHANGED <<feed, reading, callers, backend, mem, sidecar, locks, objects, held, ghost, last,
                 installs, now>>

\* the stream yields a chunk: hash.update(chunk), and Files writes what the
\* stack makes of it
StreamChunk(w, chunk) ==
  /\ writers[w].pc = "stream"
  /\ chunk # <<>>
  /\ Len(writers[w].content) + Len(chunk) <= MaxLen
  /\ writers' = [writers EXCEPT ![w].content = @ \o chunk]
  /\ files' = IF BaseOf(backend) = "Files"
              THEN Put(files, writers[w].cid,
                       Emitted(backend, writers[w].content \o chunk))
              ELSE files
  /\ UNCHANGED <<feed, reading, callers, backend, mem, sidecar, locks, objects, held, ghost, last,
                 installs, now>>

\* the stream throws, or the signal is found aborted: the backend's
\* writeStream throws and leaves what it has written; Compression catches
\* that and returns false, which pushStream does not look at
StreamFail(w) ==
  /\ writers[w].pc \in {"open", "stream"}
  /\ writers' = [writers EXCEPT ![w] =
       IF Compressing(backend)
       THEN [writers[w] EXCEPT !.pc = "rename", !.cas = "false"]
       ELSE [Streamed(w, "throw", Undef) EXCEPT !.cas = "throw"]]
  /\ UNCHANGED <<feed, reading, callers, backend, mem, files, sidecar, locks, objects, held, ghost,
                 last, installs, now>>

\* the stream ends: Files closes the file and writes the sidecar, Memory
\* writes the entry
StreamEnd(w) ==
  /\ writers[w].pc = "stream"
  /\ \E bytes \in {Emitted(backend, writers[w].content)} :
      IF BaseOf(backend) = "Files"
      THEN /\ files' = Put(files, writers[w].cid, bytes)
           /\ sidecar' = WriteFile(sidecar, writers[w].cid,
                           [type |-> DefaultType, hash |-> Hash(bytes)], "wx")
           /\ writers' = [writers EXCEPT ![w].pc = "rename", ![w].cas = "true"]
           /\ UNCHANGED mem
      ELSE \E r \in {MemoryWrite(mem, writers[w].cid, bytes, DefaultType,
                                 NoToken)} :
             /\ mem' = r.mem
             /\ writers' = [writers EXCEPT ![w].pc = "rename",
                                           ![w].cas = r.res]
             /\ UNCHANGED <<files, sidecar>>
  /\ UNCHANGED <<feed, reading, callers, backend, locks, objects, held, ghost, last, installs, now>>

\* cid = hash.digest('hex'); await rename(tmpnam, cid); return cid
StreamRename(w) ==
  /\ writers[w].pc = "rename"
  /\ \E r \in {Rename(BaseOf(backend), Cur, writers[w].cid,
                      Hash(writers[w].content))} :
      Install(r)
  /\ writers' = [writers EXCEPT ![w] =
                   Streamed(w, "cid", Hash(writers[w].content))]
  /\ UNCHANGED <<feed, reading, callers, backend, held, ghost, last, installs, now>>

NextStream ==
  \/ \E w \in Writers : StreamBegin(w)
  \/ \E w \in Writers : StreamOpen(w)
  \/ \E w \in Writers, chunk \in Contents : StreamChunk(w, chunk)
  \/ \E w \in Writers : StreamFail(w)
  \/ \E w \in Writers : StreamEnd(w)
  \/ \E w \in Writers : StreamRename(w)

SpecStream == InitWith(StreamStacks) /\ [][NextStream]_vars

(***************************************************************************)
(* readStream of Secret, Asymetric and Compression: the inner backend's    *)
(* stream is fed chunk by chunk into the wrapper's transform stream by a   *)
(* loop nobody awaits (pipe for the two encrypting wrappers, an inline     *)
(* loop for Compression), and the transform stream is what the caller      *)
(* iterates. The wrappers stand over Memory, whose stream never fails, or  *)
(* over Files, where the stream of an id without a file fails.             *)
(***************************************************************************)
OverMemory == {"Secret", "Asymetric", "Compression"}
OverFiles == {"Secret/Files", "Asymetric/Files", "Compression/Files"}
\* Compression.readStream: `catch {}`
Swallows(b) == b \in {"Compression", "Compression/Files"}
\* what the transform stream turns into when its input ends
Finished(b, S, id) ==
  IF ReadStream(b, S, id).error THEN "errored" ELSE "ended"
\* the loop's catch block. pipe: signal?.throwIfAborted() throws out of the
\* un-awaited pipe when the signal has fired, else output.emit('error');
\* Compression: nothing
Catch(b, r) ==
  IF Swallows(b) THEN [r EXCEPT !.pc = "swallowed"]
  ELSE IF r.aborted THEN [r EXCEPT !.pc = "rejected"]
  ELSE [r EXCEPT !.pc = "piped", !.out = "errored"]

\* readStream(id, signal) is called and the caller begins to iterate
ReadBegin(id) ==
  /\ reading.consumer \in {"none", "ended", "error"}
  /\ \E inner \in {ReadStream(BaseOf(backend), Cur, id)} :
       reading' = Reading("pumping", id, inner.chunks, inner.error, "open",
                          FALSE, "iterating")
  /\ UNCHANGED <<feed, callers, backend, mem, files, sidecar, locks, objects, held,
                 ghost, last, writers, installs, now>>

\* the signal fires while the caller iterates
Abort ==
  /\ reading.consumer = "iterating"
  /\ ~reading.aborted
  /\ reading' = [reading EXCEPT !.aborted = TRUE]
  /\ UNCHANGED <<feed, callers, backend, mem, files, sidecar, locks, objects, held,
                 ghost, last, writers, installs, now>>

\* the inner stream yields a chunk: signal?.throwIfAborted(), then the
\* chunk is written to the transform stream
PumpChunk ==
  /\ reading.pc = "pumping"
  /\ reading.inner # <<>>
  /\ reading' = IF reading.aborted THEN Catch(backend, reading)
                ELSE [reading EXCEPT !.inner = Tail(@)]
  /\ UNCHANGED <<feed, callers, backend, mem, files, sidecar, locks, objects, held,
                 ghost, last, writers, installs, now>>

\* the inner stream ends: output.end(), with no look at the signal
PumpEnd ==
  /\ reading.pc = "pumping"
  /\ reading.inner = <<>>
  /\ ~reading.fails
  /\ reading' = [reading EXCEPT !.pc = "piped",
                   !.out = Finished(backend, Cur, reading.id)]
  /\ UNCHANGED <<feed, callers, backend, mem, files, sidecar, locks, objects, held,
                 ghost, last, writers, installs, now>>

\* the inner stream fails
PumpFail ==
  /\ reading.pc = "pumping"
  /\ reading.inner = <<>>
  /\ reading.fails
  /\ reading' = Catch(backend, reading)
  /\ UNCHANGED <<feed, callers, backend, mem, files, sidecar, locks, objects, held,
                 ghost, last, writers, installs, now>>

Pump == PumpChunk \/ PumpEnd \/ PumpFail

\* the caller's `for await` sees the transform stream end or fail
Consume ==
  /\ reading.consumer = "iterating"
  /\ reading.out \in {"ended", "errored"}
  /\ reading' = [reading EXCEPT
                   !.consumer = IF reading.out = "ended" THEN "ended"
                                ELSE "error"]
  /\ UNCHANGED <<feed, callers, backend, mem, files, sidecar, locks, objects, held,
                 ghost, last, writers, installs, now>>

NextReading ==
  \/ \E content \in Contents, type \in TypeArgs, k \in KeysOf(backend) :
       /\ backend \in OverMemory
       /\ reading = NoReading
       /\ DoWrite(Altered, content, type, "none", k)
  \/ \E id \in Ids : ReadBegin(id)
  \/ Abort
  \/ PumpChunk
  \/ PumpEnd
  \/ PumpFail
  \/ Consume

\* the event loop runs the feeding loop and the caller's iteration
SpecReading ==
  /\ InitWith(OverMemory \cup OverFiles)
  /\ [][NextReading]_vars
  /\ WF_vars(Pump)
  /\ WF_vars(Consume)

(***************************************************************************)
(* Files.write, writeStream and delete of concurrent callers on one id,    *)
(* await by await: Lock.await (exclusive create of the lock file, else a   *)
(* watch on it and a retry at every change), the read of the stored hash,  *)
(* the file operations in either order, and the releases. A write without  *)
(* a token takes no lock and creates both files with 'wx'.                 *)
(***************************************************************************)
\* the id the concurrent callers work on
Locked == "a"
InFlight(c) == callers[c].pc \notin {"idle", "done"}
\* what the callers write: one content more than the two of Contents, so
\* that two writes can differ from each other and from what is stored
Written == Contents \cup {<<B(49)>>}
\* the tokens a caller passes: one minted by this backend for some content
FilesTokens == {ConflictToken("Files", Hash(content)) : content \in Contents}
Finish(c, res) ==
  [callers[c] EXCEPT !.pc = "done", !.res = res, !.handle = FALSE,
                     !.current = Undef]
\* FS.unlink(lockfile) by caller c, who goes on as `next`: the file is gone
\* (ENOENT is benign), nobody's creation is on disk any more, and every
\* watch on the file reports a change
Unlinked(c, next) ==
  [d \in Callers |->
     IF d = c THEN [next EXCEPT !.made = FALSE, !.handle = FALSE]
     ELSE IF Locked \notin locks THEN callers[d]
     ELSE [callers[d] EXCEPT
             !.made = FALSE,
             !.pc = IF @ = "watching" THEN "woken" ELSE @]]
\* Lock.#create by caller c, who goes on at `pc` if the file was there
Created(c, pc) ==
  [callers EXCEPT ![c] =
     IF LockCreate(locks, Locked)
     THEN [@ EXCEPT !.pc = "locked", !.handle = TRUE, !.made = TRUE]
     ELSE [@ EXCEPT !.pc = pc]]

\* write(id, content, type, token), writeStream(id, stream, type, token),
\* write(id, content) or delete(id, token) is called
FilesBegin(c, op, content, token) ==
  /\ ~InFlight(c)
  /\ op = "create" <=> token = NoToken
  /\ op = "delete" => content = <<>>
  /\ callers' = [d \in Callers |->
       IF d = c
       THEN Caller(IF op = "create" THEN "writing" ELSE "create", op, content,
                   token, Undef, FALSE, FALSE, "none",
                   {e \in Callers : InFlight(e)})
       ELSE [callers[d] EXCEPT !.with = @ \ {c}]]
  /\ UNCHANGED <<feed, reading, backend, mem, files, sidecar, locks, objects, held,
                 ghost, last, writers, installs, now>>

\* Lock.await: `if (await Lock.#create(lockfile)) return new Lock(...)`
AwaitCreate(c) ==
  /\ callers[c].pc = "create"
  /\ callers' = Created(c, "watch")
  /\ locks' = locks \cup {Locked}
  /\ UNCHANGED <<feed, reading, backend, mem, files, sidecar, objects, held, ghost,
                 last, writers, installs, now>>

\* the watch starts at the first turn of `for await (const _ of changes)`:
\* with the lock file gone by then it raises ENOENT
AwaitWatch(c) ==
  /\ callers[c].pc = "watch"
  /\ callers' = [callers EXCEPT ![c] =
                   IF Locked \in locks THEN [@ EXCEPT !.pc = "watching"]
                   ELSE Finish(c, "enoent")]
  /\ UNCHANGED <<feed, reading, backend, mem, files, sidecar, locks, objects, held,
                 ghost, last, writers, installs, now>>

\* a change was reported: `if (await Lock.#create(lockfile)) return ...`
AwaitRetry(c) ==
  /\ callers[c].pc = "woken"
  /\ callers' = Created(c, "watching")
  /\ locks' = locks \cup {Locked}
  /\ UNCHANGED <<feed, reading, backend, mem, files, sidecar, objects, held, ghost,
                 last, writers, installs, now>>

\* the signal (the 30 s timeout or the caller's) fires while the call waits
AwaitAbort(c) ==
  /\ callers[c].pc \in {"watch", "watching", "woken"}
  /\ callers' = [callers EXCEPT ![c] = Finish(c, "aborted")]
  /\ UNCHANGED <<feed, reading, backend, mem, files, sidecar, locks, objects, held,
                 ghost, last, writers, installs, now>>

\* under the lock: `await this.hash(id)` and the comparison with the token
ReadHash(c) ==
  /\ callers[c].pc = "locked"
  /\ \E current \in {FilesHash(FS(files, sidecar, locks), Locked)} :
       callers' = [callers EXCEPT ![c] =
         IF current # ValueOf(callers[c].token)
         THEN [@ EXCEPT !.pc = "releasing", !.res = "false",
                        !.current = current]
         ELSE [@ EXCEPT !.pc = IF callers[c].op = "delete" THEN "unlinking"
                               ELSE IF callers[c].op = "stream"
                               THEN "streaming"
                               ELSE "writing",
                        !.current = current]]
  /\ UNCHANGED <<feed, reading, backend, mem, files, sidecar, locks, objects, held,
                 ghost, last, writers, installs, now>>

\* where a call goes on after one of the two file operations of its
\* Promise.all: to the other one, or on to what follows them
Settled(c, first, other, failed) ==
  LET last2 == callers[c].pc = other
      ok == ~failed /\ callers[c].res = "none"
  IN  [callers[c] EXCEPT
         !.pc = IF ~last2 THEN first
                ELSE IF callers[c].op = "create" THEN "done"
                ELSE IF callers[c].op = "delete" /\ ok THEN "release"
                ELSE "releasing",
         !.res = IF failed
                 THEN (IF callers[c].op = "delete" THEN "false" ELSE "throw")
                 ELSE IF last2 /\ ok THEN "true"
                 ELSE @]

\* FS.writeFile(name, content, {flag})
WriteBytes(c) ==
  /\ callers[c].pc \in {"writing", "wrote-sidecar"}
  /\ \E flag \in {IF callers[c].token = NoToken THEN "wx" ELSE "w"} :
      /\ files' = WriteFile(files, Locked, callers[c].content, flag)
      /\ callers' = [callers EXCEPT ![c] =
           Settled(c, "wrote-bytes", "wrote-sidecar",
                  WriteFileFails(files, Locked, flag))]
  /\ UNCHANGED <<feed, reading, backend, mem, sidecar, locks, objects, held, ghost,
                 last, writers, installs, now>>

\* FS.writeFile(`${name}.data`, JSON.stringify({type, hash}), {flag})
WriteSidecar(c) ==
  /\ callers[c].pc \in {"writing", "wrote-bytes"}
  /\ \E flag \in {IF callers[c].token = NoToken THEN "wx" ELSE "w"} :
      /\ sidecar' = WriteFile(sidecar, Locked,
                      [type |-> DefaultType, hash |-> Hash(callers[c].content)],
                      flag)
      /\ callers' = [callers EXCEPT ![c] =
           Settled(c, "wrote-sidecar", "wrote-bytes",
                  WriteFileFails(sidecar, Locked, flag))]
  /\ UNCHANGED <<feed, reading, backend, mem, files, locks, objects, held, ghost,
                 last, writers, installs, now>>

\* FS.unlink(name)
UnlinkBytes(c) ==
  /\ callers[c].pc \in {"unlinking", "unlinked-sidecar"}
  /\ files' = Drop(files, Locked)
  /\ callers' = [callers EXCEPT ![c] =
       Settled(c, "unlinked-bytes", "unlinked-sidecar",
              Locked \notin DOMAIN files)]
  /\ UNCHANGED <<feed, reading, backend, mem, sidecar, locks, objects, held, ghost,
                 last, writers, installs, now>>

\* FS.unlink(`${name}.data`)
UnlinkSidecar(c) ==
  /\ callers[c].pc \in {"unlinking", "unlinked-bytes"}
  /\ sidecar' = Drop(sidecar, Locked)
  /\ callers' = [callers EXCEPT ![c] =
       Settled(c, "unlinked-sidecar", "unlinked-bytes",
              Locked \notin DOMAIN sidecar)]
  /\ UNCHANGED <<feed, reading, backend, mem, files, locks, objects, held, ghost,
                 last, writers, installs, now>>

\* writeStream: createWriteStream(name, {flags: 'w'}) truncates the file
StreamOpened(c) ==
  /\ callers[c].pc = "streaming"
  /\ files' = WriteFile(files, Locked, <<>>, "w")
  /\ callers' = [callers EXCEPT ![c].pc = "opened"]
  /\ UNCHANGED <<feed, reading, backend, mem, sidecar, locks, objects, held, ghost,
                 last, writers, installs, now>>

\* writeStream: the chunks are written and the output is ended
StreamWritten(c) ==
  /\ callers[c].pc = "opened"
  /\ files' = WriteFile(files, Locked, callers[c].content, "w")
  /\ callers' = [callers EXCEPT ![c].pc = "streamed"]
  /\ UNCHANGED <<feed, reading, backend, mem, sidecar, locks, objects, held, ghost,
                 last, writers, installs, now>>

\* writeStream: signal?.throwIfAborted() throws, or the source stream does
StreamThrown(c) ==
  /\ callers[c].pc \in {"streaming", "opened"}
  /\ callers' = [callers EXCEPT ![c].pc = "releasing", ![c].res = "throw"]
  /\ UNCHANGED <<feed, reading, backend, mem, files, sidecar, locks, objects, held,
                 ghost, last, writers, installs, now>>

\* writeStream: FS.writeFile(`${name}.data`, ...) and `return true`
StreamSidecar(c) ==
  /\ callers[c].pc = "streamed"
  /\ sidecar' = WriteFile(sidecar, Locked,
                  [type |-> DefaultType, hash |-> Hash(callers[c].content)],
                  "w")
  /\ callers' = [callers EXCEPT ![c].pc = "releasing", ![c].res = "true"]
  /\ UNCHANGED <<feed, reading, backend, mem, files, locks, objects, held, ghost,
                 last, writers, installs, now>>

\* delete: `await lock?.release()` before `return true`
ExplicitRelease(c) ==
  /\ callers[c].pc = "release"
  /\ callers' = Unlinked(c, [callers[c] EXCEPT !.pc = "releasing"])
  /\ locks' = LockRelease(locks, Locked)
  /\ UNCHANGED <<feed, reading, backend, mem, files, sidecar, objects, held, ghost,
                 last, writers, installs, now>>

\* a disposal that ran on return only: a call that throws would keep
\* its lock file
LockDisposeOnReturn(c) ==
  /\ callers[c].pc = "releasing"
  /\ callers' = IF callers[c].res = "throw"
                THEN [callers EXCEPT ![c] = Finish(c, "throw")]
                ELSE Unlinked(c, Finish(c, callers[c].res))
  /\ locks' = IF callers[c].res = "throw" THEN locks
              ELSE LockRelease(locks, Locked)
  /\ UNCHANGED <<feed, reading, backend, mem, files, sidecar, objects, held, ghost,
                 last, writers, installs, now>>

\* the scope of `await using lock` is left: Lock[Symbol.asyncDispose]
LockDispose(c) ==
  /\ callers[c].pc = "releasing"
  /\ callers' = Unlinked(c, Finish(c, callers[c].res))
  /\ locks' = LockRelease(locks, Locked)
  /\ UNCHANGED <<feed, reading, backend, mem, files, sidecar, objects, held, ghost,
                 last, writers, installs, now>>

\* the calls vary in content where an outcome depends on it: in the
\* token-gated writes
Varied(op, content) ==
  /\ op = "create" => content = <<>>
  /\ op = "stream" => content = <<B(48)>>

NextLocked ==
  \/ \E c \in Callers, op \in {"write", "stream", "delete", "create"},
        content \in Written, token \in FilesTokens \cup {NoToken} :
       Varied(op, content) /\ FilesBegin(c, op, content, token)
  \/ \E c \in Callers : AwaitCreate(c)
  \/ \E c \in Callers : AwaitWatch(c)
  \/ \E c \in Callers : AwaitRetry(c)
  \/ \E c \in Callers : AwaitAbort(c)
  \/ \E c \in Callers : ReadHash(c)
  \/ \E c \in Callers : WriteBytes(c)
  \/ \E c \in Callers : WriteSidecar(c)
  \/ \E c \in Callers : UnlinkBytes(c)
  \/ \E c \in Callers : UnlinkSidecar(c)
  \/ \E c \in Callers : StreamOpened(c)
  \/ \E c \in Callers : StreamWritten(c)
  \/ \E c \in Callers : StreamThrown(c)
  \/ \E c \in Callers : StreamSidecar(c)
  \/ \E c \in Callers : ExplicitRelease(c)
  \/ \E c \in Callers : LockDispose(c)

SpecLocked == InitWith({"Files"}) /\ [][NextLocked]_vars

(***************************************************************************)
(* Lock.await returning null: the `for await` over the watch ends with no  *)
(* abort raised, and `return null` is reached. write and writeStream then  *)
(* compare null with the token's value; delete does not look at the lock   *)
(* and goes on to compare the token with the sidecar's hash.               *)
(***************************************************************************)
\* Lock.await: the watch ends, `signal?.throwIfAborted()` passes, `return null`
AwaitEnded(c) ==
  /\ callers[c].pc = "watching"
  /\ callers' = [callers EXCEPT ![c].pc = "nolock"]
  /\ UNCHANGED <<feed, reading, backend, mem, files, sidecar, locks, objects, held,
                 ghost, last, writers, installs, now>>

\* `const current = lock ? await this.hash(id) : null` and the comparison in
\* write and writeStream; `token.value(this) !== (await this.hash(id))` in
\* delete
Unlocked(c) ==
  /\ callers[c].pc = "nolock"
  /\ \E current \in {IF callers[c].op = "delete"
                     THEN FilesHash(FS(files, sidecar, locks), Locked)
                     ELSE Undef} :
       callers' = [callers EXCEPT ![c] =
         IF current # ValueOf(callers[c].token) THEN Finish(c, "false")
         ELSE [@ EXCEPT !.pc = "bare", !.current = current]]
  /\ UNCHANGED <<feed, reading, backend, mem, files, sidecar, locks, objects, held,
                 ghost, last, writers, installs, now>>

\* where delete goes on after one unlink of its Promise.all when it has no
\* lock: `lock?.release()` does nothing, nothing is disposed
Bare(c, first, other, failed) ==
  IF callers[c].pc # other
  THEN [callers[c] EXCEPT !.pc = first,
                          !.res = IF failed THEN "false" ELSE @]
  ELSE Finish(c, IF failed \/ callers[c].res # "none" THEN "false"
                 ELSE "true")

\* FS.unlink(name) by a delete that has no lock
BareUnlinkBytes(c) ==
  /\ callers[c].pc \in {"bare", "bare-sidecar"}
  /\ files' = Drop(files, Locked)
  /\ callers' = [callers EXCEPT ![c] =
       Bare(c, "bare-bytes", "bare-sidecar", Locked \notin DOMAIN files)]
  /\ UNCHANGED <<feed, reading, backend, mem, sidecar, locks, objects, held, ghost,
                 last, writers, installs, now>>

\* FS.unlink(`${name}.data`) by a delete that has no lock
BareUnlinkSidecar(c) ==
  /\ callers[c].pc \in {"bare", "bare-bytes"}
  /\ sidecar' = Drop(sidecar, Locked)
  /\ callers' = [callers EXCEPT ![c] =
       Bare(c, "bare-sidecar", "bare-bytes", Locked \notin DOMAIN sidecar)]
  /\ UNCHANGED <<feed, reading, backend, mem, files, locks, objects, held, ghost,
                 last, writers, installs, now>>

\* the calls of this specification write one content each
Plain(op, content) ==
  content = IF op = "stream" THEN <<B(48)>> ELSE <<>>

NextUnlocked ==
  \/ \E c \in Callers, op \in {"write", "stream", "delete", "create"},
        content \in Contents, token \in FilesTokens \cup {NoToken} :
       Plain(op, content) /\ FilesBegin(c, op, content, token)
  \/ \E c \in Callers : AwaitCreate(c)
  \/ \E c \in Callers : AwaitWatch(c)
  \/ \E c \in Callers : AwaitRetry(c)
  \/ \E c \in Callers : AwaitAbort(c)
  \/ \E c \in Callers : AwaitEnded(c)
  \/ \E c \in Callers : Unlocked(c)
  \/ \E c \in Callers : BareUnlinkBytes(c)
  \/ \E c \in Callers : BareUnlinkSidecar(c)
  \/ \E c \in Callers : ReadHash(c)
  \/ \E c \in Callers : WriteBytes(c)
  \/ \E c \in Callers : WriteSidecar(c)
  \/ \E c \in Callers : UnlinkBytes(c)
  \/ \E c \in Callers : UnlinkSidecar(c)
  \/ \E c \in Callers : StreamOpened(c)
  \/ \E c \in Callers : StreamWritten(c)
  \/ \E c \in Callers : StreamThrown(c)
  \/ \E c \in Callers : StreamSidecar(c)
  \/ \E c \in Callers : ExplicitRelease(c)
  \/ \E c \in Callers : LockDispose(c)

SpecUnlocked == InitWith({"Files"}) /\ [][NextUnlocked]_vars

(***************************************************************************)
(* Files.write without a token, by concurrent callers on one id, each call *)
(* made while the id is absent: no lock is taken, and the two exclusive    *)
(* creates of a call run one by one.                                       *)
(***************************************************************************)
NextCreate ==
  \/ \E c \in Callers, content \in Written :
       /\ Locked \notin DOMAIN files \cup DOMAIN sidecar
       /\ FilesBegin(c, "create", content, NoToken)
  \/ \E c \in Callers : WriteBytes(c)
  \/ \E c \in Callers : WriteSidecar(c)

SpecCreate == InitWith({"Files"}) /\ [][NextCreate]_vars

(***************************************************************************)
(* Lock.await, Lock.acquire and release on their own: callers ask for the  *)
(* lock of one name, hold it as long as they like and release it. A        *)
(* waiter's own steps are taken in time (the event loop runs them);        *)
(* nothing makes a holder release or a cancel signal fire.                 *)
(***************************************************************************)
Waiting(c) == callers[c].pc \in {"create", "watch", "watching", "woken"}
\* Lock.await(name, cancel) is called
AwaitBegin(c) ==
  /\ ~InFlight(c)
  /\ callers' = [d \in Callers |->
       IF d = c
       THEN Caller("create", "await", <<>>, NoToken, Undef, FALSE, FALSE,
                   "none", {e \in Callers : InFlight(e)})
       ELSE [callers[d] EXCEPT !.with = @ \ {c}]]
  /\ UNCHANGED <<feed, reading, backend, mem, files, sidecar, locks, objects, held,
                 ghost, last, writers, installs, now>>

\* Lock.acquire(name): one exclusive create, a handle or null
Acquire(c) ==
  /\ ~InFlight(c)
  /\ callers' = [d \in Callers |->
       IF d # c THEN [callers[d] EXCEPT !.with = @ \ {c}]
       ELSE IF LockCreate(locks, Locked)
       THEN Caller("locked", "acquire", <<>>, NoToken, Undef, TRUE, TRUE,
                   "none", {e \in Callers : InFlight(e)})
       ELSE Caller("done", "acquire", <<>>, NoToken, Undef, FALSE, FALSE,
                   "null", {e \in Callers : InFlight(e)})]
  /\ locks' = locks \cup {Locked}
  /\ UNCHANGED <<feed, reading, backend, mem, files, sidecar, objects, held, ghost,
                 last, writers, installs, now>>

\* the holder calls release() on the handle it was given
HolderRelease(c) ==
  /\ callers[c].pc = "locked"
  /\ callers[c].op \in {"await", "acquire"}
  /\ callers' = Unlinked(c, Finish(c, "handle"))
  /\ locks' = LockRelease(locks, Locked)
  /\ UNCHANGED <<feed, reading, backend, mem, files, sidecar, objects, held, ghost,
                 last, writers, installs, now>>

AwaitStep(c) == AwaitCreate(c) \/ AwaitWatch(c) \/ AwaitRetry(c)

NextAwait ==
  \/ \E c \in Callers : AwaitBegin(c)
  \/ \E c \in Callers : Acquire(c)
  \/ \E c \in Callers : AwaitCreate(c)
  \/ \E c \in Callers : AwaitWatch(c)
  \/ \E c \in Callers : AwaitRetry(c)
  \/ \E c \in Callers : AwaitAbort(c)
  \/ \E c \in Callers : HolderRelease(c)

SpecAwait ==
  /\ InitWith({"Files"})
  /\ [][NextAwait]_vars
  /\ \A c \in Callers : WF_vars(AwaitStep(c))

(***************************************************************************)
(* Properties. A step's call is read from `last'`, its arguments' state    *)
(* from the unprimed variables and its effect from `After`.                *)
(***************************************************************************)
After == St(mem', FS(files', sidecar', locks'), objects')
Obs(id) == Observe(backend, Cur, id)
ObsAfter(id) == Observe(backend, After, id)
NullObs ==
  [exists |-> FALSE, read |-> NullRead, type |-> "null", hash |-> Undef,
   token |-> NoToken]

\* C1: on the Memory backend a write, given no token or a token of this
\* backend, returns true exactly when (no token is given and id is not
\* stored) or (a token is given, id is stored and the stored hash equals the
\* token's value); in every other case it returns false and the map is
\* unchanged.
C1_MemoryWriteGate ==
  [][(/\ backend = "Memory"
      /\ last'.op = "write"
      /\ ~ValueThrows(Tok(last'.tk, last'.id), "Memory")) =>
       LET id == last'.id
           token == Tok(last'.tk, id)
           ok == \/ token = NoToken /\ id \notin DOMAIN mem
                 \/ /\ token # NoToken
                    /\ id \in DOMAIN mem
                    /\ mem[id].hash = token.value
       IN  /\ last'.res = IF ok THEN "true" ELSE "false"
           /\ ok => id \in DOMAIN mem'
           /\ ~ok => mem' = mem]_vars

\* a write with a token has replaced what Memory stored
C1_TokenWriteDone ==
  /\ backend = "Memory"
  /\ last.op = "write" /\ last.tk = "held" /\ last.res = "true"
  /\ held.owner = "Memory"
  /\ last.id \in DOMAIN mem /\ mem[last.id].hash # held.value

\* C2: on the Bucket backend a write without a token succeeds only if no
\* object exists at id; if one exists it returns false and the object's
\* body, type and ETag are unchanged.
C2_BucketCreateOnly ==
  [][(backend = "Bucket" /\ last'.op = "write" /\ last'.tk = "none") =>
       LET id == last'.id
       IN  /\ last'.res = "true" => id \notin DOMAIN objects
           /\ id \in DOMAIN objects =>
                /\ last'.res = "false"
                /\ id \in DOMAIN objects'
                /\ objects'[id] = objects[id]]_vars

\* a write without a token was the first thing to touch an object since its
\* token was read, and it returned true
C2_Overwritten ==
  /\ backend = "Bucket"
  /\ last.op = "write" /\ last.tk = "none" /\ last.res = "true"
  /\ ghost.id = last.id /\ ghost.touched = 1

\* C3: on the Files backend a write without a token on an id that is already
\* stored returns false, it does not raise, and leaves the bytes file and
\* the .data sidecar unchanged.
C3_FilesCreateOnly ==
  [][(/\ backend = "Files"
      /\ last'.op = "write" /\ last'.tk = "none"
      /\ last'.id \in DOMAIN files /\ last'.id \in DOMAIN sidecar) =>
       /\ last'.res = "false"
       /\ files' = files
       /\ sidecar' = sidecar]_vars

\* a write without a token on a stored id has raised
C3_Raised ==
  /\ backend = "Files"
  /\ last.op = "write" /\ last.tk = "none" /\ last.res = "throw"
  /\ last.id \in DOMAIN files /\ last.id \in DOMAIN sidecar

\* C4: on Memory and Files a write with a token of the backend whose value
\* differs from the current stored hash returns false, and exists, read,
\* type, hash and token for id return afterwards what they returned before.
C4_WrongTokenFrame ==
  [][(/\ backend \in {"Memory", "Files"}
      /\ last'.op = "write" /\ last'.tk = "held"
      /\ held.owner = Owner(backend)
      /\ held.value # HashOf(backend, Cur, last'.id)) =>
       /\ last'.res = "false"
       /\ ObsAfter(last'.id) = Obs(last'.id)]_vars

\* Files has refused a write on a stored id whose token is not the held one
C4_Rejected ==
  /\ backend = "Files"
  /\ last.op = "write" /\ last.tk = "held" /\ last.res = "false"
  /\ held.owner = "Files"
  /\ last.id \in DOMAIN files /\ last.id \in DOMAIN sidecar
  /\ held.value # FilesHash(Cur.F, last.id)

\* C5: after a write with the correct token returns true, token(id) returns
\* a token whose value differs from the used one, so another write with the
\* used token returns false, whatever bytes and type were written.
C5_UsedTokenRetired ==
  [][(last'.op = "write" /\ last'.tk # "none" /\ last'.res = "true") =>
       \E used \in {Tok(last'.tk, last'.id)} :
         /\ TokenOf(backend, After, last'.id).value # used.value
         /\ \A c \in Contents, t \in TypeArgs :
              Write(backend, After, last'.id, c, t, used, "k1").res = "false"]_vars

\* the held token was used for a successful write and is still the token of
\* the id
C5_StillCurrent ==
  /\ last.op = "write" /\ last.tk = "held" /\ last.res = "true"
  /\ TokenOf(backend, Cur, last.id) = held

\* C6: a token read from token(id) is accepted by a later write or delete on
\* id if and only if no successful write, delete or rename has touched id in
\* between, also when those have brought the stored bytes back to what they
\* were.
C6_TokenValidUntilTouched ==
  [][(/\ last'.op \in {"write", "delete"}
      /\ last'.tk = "held"
      /\ ghost.id = last'.id) =>
       (last'.res = "true" <=> ghost.touched = 0)]_vars

\* the id's hash has been away from the held token's value and is back at it
C6_BackAgain ==
  /\ backend = "Memory"
  /\ ghost.changed
  /\ ghost.id \in DOMAIN mem
  /\ MemoryToken(mem, ghost.id) = held

\* C7: delete with a token of the backend returns true and removes the
\* object iff id is stored and the token's value equals the stored hash,
\* after which exists is false and read, type, hash and token return null;
\* otherwise it returns false and nothing the contract shows has changed.
C7_DeleteGate ==
  [][(/\ last'.op = "delete" /\ last'.tk = "held"
      /\ held.owner = Owner(backend)) =>
       LET id == last'.id
           ok == /\ Exists(backend, Cur, id)
                 /\ held.value = HashOf(backend, Cur, id)
       IN  /\ last'.res = IF ok THEN "true" ELSE "false"
           /\ ok => ObsAfter(id) = NullObs
           /\ ~ok => \A j \in Ids : ObsAfter(j) = Obs(j)]_vars

\* Files holds a sidecar without its bytes and the caller holds its token
C7_StaleSidecar ==
  /\ backend = "Files"
  /\ \E id \in Ids :
       /\ id \in DOMAIN sidecar /\ id \notin DOMAIN files
       /\ held = FilesToken(Cur.F, id)

\* C8: on Memory, Files and Secret, Asymetric and Compression over Memory,
\* writeStream(id, chunks, T) on an absent id, for every chunk sequence and
\* the empty one too, leaves what write(id, concat(chunks), T) leaves:
\* read(id) returns (concat(chunks), T) and readStream(id) concatenates to
\* concat(chunks).
C8_StreamAsWrite ==
  [][\A id \in Ids, chunks \in ChunkSeqs, type \in TypeArgs,
        k \in KeysOf(backend) :
       (/\ last'.op = "writeStream" /\ last'.id = id /\ last'.tk = "none"
        /\ ~Exists(backend, Cur, id)
        /\ DoWriteStream(id, chunks, type, "none", k)) =>
         \E w \in {Write(backend, Cur, id, Concat(chunks), type, NoToken, k)} :
           /\ last'.res = w.res
           /\ Read(backend, After, id) = Found(Concat(chunks), TypeOr(type))
           /\ Read(backend, After, id) = Read(backend, w.S, id)
           /\ Exists(backend, After, id) = Exists(backend, w.S, id)
           /\ TypeOf(backend, After, id) = TypeOf(backend, w.S, id)
           /\ ~ReadStream(backend, After, id).error
           /\ Concat(ReadStream(backend, After, id).chunks) = Concat(chunks)]_vars

\* an encrypting stack has stored a frame of the auth tag alone
C8_TagOnly ==
  /\ backend \in {"Secret", "Asymetric"}
  /\ last.op = "writeStream" /\ last.res = "true"
  /\ last.id \in DOMAIN mem
  /\ Len(mem[last.id].data) = TagLen

\* C9: on Memory and Files, after rename(a, b) returns true, exists(a) is
\* false, exists(b) is true, read(b) returns what read(a) returned before,
\* type(b), hash(b) and token(b) carry a's former type and hash, and
\* type(a), hash(a) and token(a) return null.
C9_RenameMoves ==
  [][(last'.op = "rename" /\ last'.res = "true") =>
       LET a == last'.id
           b == last'.to
       IN  /\ ~Exists(backend, After, a)
           /\ Exists(backend, After, b)
           /\ Read(backend, After, b) = Read(backend, Cur, a)
           /\ TypeOf(backend, After, b) = TypeOf(backend, Cur, a)
           /\ HashOf(backend, After, b) = HashOf(backend, Cur, a)
           /\ TokenOf(backend, After, b) = TokenOf(backend, Cur, a)
           /\ TypeOf(backend, After, a) = "null"
           /\ HashOf(backend, After, a) = Undef
           /\ TokenOf(backend, After, a) = NoToken]_vars

\* Files has renamed the bytes and the sidecar is still at the source
C9_SidecarLeft ==
  /\ backend = "Files"
  /\ last.op = "rename" /\ last.res = "true"
  /\ last.to \in DOMAIN files /\ last.to \notin DOMAIN sidecar
  /\ last.id \in DOMAIN sidecar /\ last.id \notin DOMAIN files

\* C10: a write or delete with a token minted by another backend instance
\* fails with an error where it reads the token's value (Bucket.delete
\* returns false for an absent id before it reads it), the stored state is
\* unchanged, and on Files the lock taken for the operation is released.
C10_ForeignTokenRaises ==
  [][(/\ last'.op \in {"write", "delete"} /\ last'.tk = "held"
      /\ ValueThrows(held, Owner(backend))
      /\ ~(/\ backend = "Bucket" /\ last'.op = "delete"
           /\ last'.id \notin DOMAIN objects)) =>
       /\ last'.res = "throw"
       /\ <<mem', files', sidecar', objects'>> = <<mem, files, sidecar, objects>>
       /\ last'.id \notin locks']_vars

\* Files has raised on a foreign token and no lock file is left
C10_Raised ==
  /\ backend = "Files"
  /\ last.op \in {"write", "delete"} /\ last.tk = "held"
  /\ held.owner = "Other"
  /\ last.res = "throw"
  /\ locks = {}

(***************************************************************************)
(* The Frontend's blobs.                                                   *)
(***************************************************************************)
\* C11: push(B) hands back the SHA-512 of B and pull of that cid returns B,
\* for a B not stored yet on every backend, and for a B already stored on
\* Memory and on Secret over Memory, where it is the same cid, not null
C11_PushPull ==
  [][\A content \in Contents, type \in TypeArgs, k \in KeysOf(backend) :
       (/\ last'.op = "push"
        /\ last'.id = Hash(content)
        /\ CallPush(content, type, k)
        /\ \/ ~Exists(backend, Cur, Hash(content))
           \/ backend \in {"Memory", "Secret"})
       => /\ last'.res = Hash(content)
          /\ Pull(backend, After, last'.res).found
          /\ Pull(backend, After, last'.res).content = content]_vars
C11_PushedAgain ==
  /\ backend = "Secret"
  /\ last.op = "push"
  /\ last.tk = "fresh"
  /\ last.res = last.id
  /\ Pull(backend, Cur, last.id).found

\* C12: a call of the Frontend changes neither the bytes nor the MIME
\* type that the backend returns for a blob already stored under a cid
C12_BlobsCreatedOnce ==
  [][\A cid \in Stored(backend, Cur) :
       (cid[1] = "sha512" /\ Read(backend, Cur, cid).found)
       => Read(backend, After, cid) = Read(backend, Cur, cid)]_vars

\* C13: pushStream(chunks) hands back the SHA-512 of the chunks'
\* concatenation, and pullStream of that cid then yields chunks that
\* concatenate to it, whether or not the cid was stored before
C13_PushStreamPullStream ==
  [][\A chunks \in ChunkSeqs, type \in TypeArgs, k \in KeysOf(backend),
        uuid \in Range(Uuids) :
       (/\ last'.op = "pushStream"
        /\ last'.id = Hash(Concat(chunks))
        /\ CallPushStream(chunks, type, k, uuid))
       => /\ last'.res = Hash(Concat(chunks))
          /\ ~PullStream(backend, After, last'.res).error
          /\ Concat(PullStream(backend, After, last'.res).chunks)
               = Concat(chunks)]_vars
C13_EmptyStreamLost ==
  /\ backend = "Secret"
  /\ last.op = "pushStream"
  /\ last.res = Hash(<<>>)
  /\ \/ PullStream(backend, Cur, last.res).error
     \/ Concat(PullStream(backend, Cur, last.res).chunks) # <<>>
\* the content ids under which the stack shows an object
Visible(S) ==
  {id \in Stored(BaseOf(backend), S) :
     id[1] = "sha512" /\ Exists(BaseOf(backend), S, id)}
\* a step in which a pushStream renames its temporary name
Renames(w) == writers[w].pc = "rename" /\ writers'[w].pc = "done"
\* C14: during pushStream an object visible under a content id holds the
\* complete stream that hashes to the id; the steps before the rename
\* touch nothing under a content id, so a partly written object is under
\* the temporary name only; and a pushStream whose stream failed or was
\* cancelled renames nothing to a content id
C14_NoPartialUnderCid ==
  [][/\ \A id \in Visible(After) :
          /\ StreamBytes(backend, After, id).ok
          /\ Hash(StreamBytes(backend, After, id).data) = id
     /\ (\A w \in Writers : ~Renames(w))
          => /\ Visible(After) = Visible(Cur)
             /\ \A id \in Visible(Cur) :
                  StreamBytes(backend, After, id)
                    = StreamBytes(backend, Cur, id)
     /\ \A w \in Writers :
          (Renames(w) /\ writers[w].cas # "true")
            => Visible(After) = Visible(Cur)]_vars
\* a pushStream over Compression over Files whose stream failed has handed
\* back a cid, and the file it had begun is under that cid
C14_PartialRenamed ==
  /\ backend = "Compression/Files"
  /\ \E w \in Writers :
       /\ writers[w].pc = "done"
       /\ writers[w].op = "pushStream"
       /\ writers[w].cas = "false"
       /\ writers[w].res = "cid"
       /\ FilesExists(FS(files, sidecar, locks), writers[w].cid)
       /\ writers[w].cid \notin DOMAIN sidecar

(***************************************************************************)
(* The Frontend's names, one call at a time.                               *)
(***************************************************************************)
\* what the queries of a name return
Named(S, name) ==
  [tag |-> Tag(backend, S, name), get |-> Get(backend, S, name),
   token |-> FrontendToken(backend, S, name),
   tags |-> Tags(backend, S, name)]
Mutations == {"set", "writeStream", "copy", "delete"}

\* C15: after set(n, B, type T) returns true, as the first write of n
\* without a token or as a later write with the current token(n), has(n)
\* is true, get(n) is B, tag(n).type is T, and tag(n).cid is the SHA-512
\* of B and pulls B
C15_SetThenGet ==
  [][\A name \in Names, content \in Contents, type \in TypeArgs,
        tk \in TokenKinds, date \in Dates, k \in KeysOf(backend) :
       (/\ last'.op = "set"
        /\ last'.id = name
        /\ last'.tk = tk
        /\ last'.res = "true"
        /\ CallSet(name, content, type, tk, date, k)
        /\ \/ tk = "none" /\ ~Exists(backend, Cur, NameId(name))
           \/ tk = "held" /\ held = FrontendToken(backend, Cur, name))
       => /\ Has(backend, After, name) = "true"
          /\ Get(backend, After, name).found
          /\ Get(backend, After, name).content = content
          /\ ~Tag(backend, After, name).null
          /\ Tag(backend, After, name).tag.type = TypeOr(type)
          /\ Tag(backend, After, name).tag.cid = Hash(content)
          /\ Pull(backend, After, Hash(content)).content = content]_vars
C15_SetAgain ==
  \E name \in Names :
    /\ last.op = "set"
    /\ last.id = name
    /\ last.tk = "held"
    /\ last.res = "true"
    /\ Len(installs[name]) = 2
    /\ Has(backend, Cur, name) = "true"
    /\ Tag(backend, Cur, name).tag.pre = installs[name][2]

\* C16: set, writeStream, copy and delete report success exactly when the
\* backend accepted their write of the pointer slot
C16_SuccessIffCas ==
  [][last'.op \in Mutations
       => (last'.res = "true" <=> installs' # installs)]_vars
C16_RejectedButTrue ==
  \E name \in Names :
    /\ last.op = "set"
    /\ last.id = name
    /\ last.tk = "none"
    /\ last.res = "true"
    /\ Len(installs[name]) = 1
    /\ \E tid \in Stored(backend, Cur) :
         /\ tid[1] = "sha512"
         /\ ~TagAt(backend, Cur, tid).null
         /\ ~TagAt(backend, Cur, tid).threw
         /\ TagAt(backend, Cur, tid).tag.pre = installs[name][1]

\* the pointer write of a call was made and the backend did not accept it
Rejected(r) == r.cas \in {"false", "throw"}

\* C17: a set, writeStream, copy or delete on n whose write of the pointer
\* slot the backend rejects leaves tag(n), get(n), token(n) and tags(n)
\* as they were
C17_RejectedLeavesName ==
  [][/\ \A name \in Names, content \in Contents, type \in TypeArgs,
          tk \in TokenKinds, date \in Dates, k \in KeysOf(backend) :
         (/\ last'.op = "set"
          /\ last'.id = name
          /\ last'.tk = tk
          /\ now' = date
          /\ CallSet(name, content, type, tk, date, k)
          /\ Rejected(Set(backend, Cur, name, content, type,
                           Tok(tk, NameId(name)),
                           date, k)))
         => Named(After, name) = Named(Cur, name)
     /\ \A name \in Names, chunks \in ChunkSeqs, type \in TypeArgs,
          tk \in TokenKinds, date \in Dates, k \in KeysOf(backend),
          uuid \in Range(Uuids) :
         (/\ last'.op = "writeStream"
          /\ last'.id = name
          /\ last'.tk = tk
          /\ now' = date
          /\ CallWriteStream(name, chunks, type, tk, date, k, uuid)
          /\ Rejected(FrontendWriteStream(backend, Cur, name, chunks, type,
                                           Tok(tk, NameId(name)), date, k, uuid)))
         => Named(After, name) = Named(Cur, name)
     /\ \A source \in Names, target \in Names, tk \in TokenKinds,
          k \in KeysOf(backend) :
         (/\ last'.op = "copy"
          /\ last'.id = source
          /\ last'.to = target
          /\ last'.tk = tk
          /\ CallCopy(source, target, tk, k)
          /\ Rejected(Copy(backend, Cur, source, target,
                            Tok(tk, NameId(target)), k)))
         => Named(After, target) = Named(Cur, target)
     /\ \A name \in Names, tk \in TokenKinds, date \in Dates,
          k \in KeysOf(backend) :
         (/\ last'.op = "delete"
          /\ last'.id = name
          /\ last'.tk = tk
          /\ now' = date
          /\ CallDelete(name, tk, date, k)
          /\ Rejected(FrontendDelete(backend, Cur, name,
                                      Tok(tk, NameId(name)),
                                      date, k)))
         => Named(After, name) = Named(Cur, name)]_vars
\* a set with a stale token: the tag it pushed is stored, the pointer
\* still names the tag installed before
C17_OrphanTag ==
  \E name \in Names :
    /\ last.op = "set"
    /\ last.id = name
    /\ last.tk = "held"
    /\ held # FrontendToken(backend, Cur, name)
    /\ Len(installs[name]) = 2
    /\ \E tid \in Stored(backend, Cur) :
         /\ tid[1] = "sha512"
         /\ ~TagAt(backend, Cur, tid).null
         /\ ~TagAt(backend, Cur, tid).threw
         /\ TagAt(backend, Cur, tid).tag.pre = installs[name][1]
         /\ TagAt(backend, Cur, tid).tag.name = name
         /\ TagAt(backend, Cur, tid).tag.keys = "name"
    /\ Tag(backend, Cur, name).tag.pre = installs[name][2]

\* the tag stored under a tag id
TagOf(S, tid) == TagAt(backend, S, tid).tag

\* C20: tags(n) yields one tag per accepted mutation of n, newest first,
\* and ends with the first tag of n, whose pre is null
C20_TagsAreVersions ==
  \A name \in Names :
    /\ ~Tags(backend, Cur, name).error
    /\ Len(Tags(backend, Cur, name).tags) = Len(installs[name])
    /\ \A i \in 1..Len(installs[name]) :
         /\ Tags(backend, Cur, name).tags[i] = TagOf(Cur, installs[name][i])
         /\ Tags(backend, Cur, name).tags[i].name = name
         /\ Tags(backend, Cur, name).tags[i].pre
              = IF i = Len(installs[name]) THEN Undef ELSE installs[name][i + 1]
C20_CopyChained ==
  \E name \in Names :
    /\ last.op = "copy"
    /\ last.to = name
    /\ last.res = "true"
    /\ Len(installs[name]) = 1
    /\ Len(Tags(backend, Cur, name).tags) > 1

\* C21: after copy(n, m) returns true, has(m) is true, tag(m) has the cid
\* of tag(n) and the name m, and tag(n), get(n), token(n) and tags(n) are
\* what they were before the copy
C21_CopyAliases ==
  [][\A source \in Names, target \in Names, tk \in TokenKinds,
        k \in KeysOf(backend) :
       (/\ last'.op = "copy"
        /\ last'.id = source
        /\ last'.to = target
        /\ last'.tk = tk
        /\ last'.res = "true"
        /\ CallCopy(source, target, tk, k))
       => /\ Has(backend, After, target) = "true"
          /\ ~Tag(backend, After, target).null
          /\ ~Tag(backend, After, source).null
          /\ Tag(backend, After, target).tag.cid
               = Tag(backend, After, source).tag.cid
          /\ Tag(backend, After, target).tag.name = target
          /\ Named(After, source) = Named(Cur, source)]_vars
\* a copy of a deleted name has returned true and the target has no content
C21_TombstoneCopied ==
  /\ last.op = "copy"
  /\ last.res = "true"
  /\ last.id # last.to
  /\ ~Tag(backend, Cur, last.to).null
  /\ Tag(backend, Cur, last.to).tag.cid = Undef
  /\ Tag(backend, Cur, last.to).tag.name = last.to
  /\ Has(backend, Cur, last.to) = "false"

\* C22: after delete(n, token) returns true with the current token, tag(n)
\* is a tombstone (no cid, type application/empty), has(n) is false, get(n)
\* is null, and tags(n) yields the tombstone and then the tags it yielded
\* before, in their order
C22_DeleteLeavesTombstone ==
  [][\A name \in Names, date \in Dates, k \in KeysOf(backend) :
       (/\ last'.op = "delete"
        /\ last'.id = name
        /\ last'.tk = "held"
        /\ last'.res = "true"
        /\ now' = date
        /\ held = FrontendToken(backend, Cur, name)
        /\ CallDelete(name, "held", date, k))
       => /\ ~Tag(backend, After, name).null
          /\ ~Tag(backend, After, name).threw
          /\ Tag(backend, After, name).tag.cid = Undef
          /\ Tag(backend, After, name).tag.type = "application/empty"
          /\ Has(backend, After, name) = "false"
          /\ Get(backend, After, name) = NoPull(FALSE)
          /\ Tags(backend, After, name).error = Tags(backend, Cur, name).error
          /\ Tags(backend, After, name).tags
               = <<Tag(backend, After, name).tag>>
                   \o Tags(backend, Cur, name).tags]_vars
\* a name written twice has been deleted with its current token
C22_DeletedAfterHistory ==
  \E name \in Names :
    /\ last.op = "delete"
    /\ last.id = name
    /\ last.tk = "held"
    /\ last.res = "true"
    /\ Len(installs[name]) = 3
    /\ Len(Tags(backend, Cur, name).tags) = 3
    /\ Tags(backend, Cur, name).tags[1].cid = Undef

\* C23: pullStream of a cid the store does not have, and readStream of a
\* name that has no content, yield no chunk and end without an error
C23_MissingStreamsEmpty ==
  /\ \A content \in Contents :
       ~FrontendExists(backend, Cur, Hash(content))
         => PullStream(backend, Cur, Hash(content)) = Stream(<<>>)
  /\ \A name \in Names :
       Has(backend, Cur, name) = "false"
         => FrontendReadStream(backend, Cur, name) = Stream(<<>>)
\* a store that holds one blob and fails the stream of another, absent one
C23_MissingStreamFails ==
  /\ last.op = "push"
  /\ FrontendExists(backend, Cur, last.id)
  /\ \E content \in Contents :
       /\ ~FrontendExists(backend, Cur, Hash(content))
       /\ PullStream(backend, Cur, Hash(content)).error
       /\ PullStream(backend, Cur, Hash(content)).chunks = <<>>

\* C24 as stated: read through Secret or Asymetric of bytes stored in the
\* inner backend without the wrapper returns those bytes and the stored
\* type, whatever the bytes are
C24_AnyRawPasses ==
  [][\A id \in Ids, raw \in RawContents, type \in TypeArgs :
       (/\ last'.op = "raw"
        /\ last'.id = id
        /\ last'.res = "true"
        /\ RawWrite(id, raw, type))
       => Read(backend, After, id) = Found(raw, TypeOr(type))]_vars
\* C24: read through Secret or Asymetric of bytes stored in the inner
\* backend without the wrapper returns those bytes and the stored type,
\* unless the bytes begin with the four bytes of the wrapper's own header
C24_RawPassesThrough ==
  [][\A id \in Ids, raw \in RawContents, type \in TypeArgs :
       (/\ last'.op = "raw"
        /\ last'.id = id
        /\ last'.res = "true"
        /\ RawWrite(id, raw, type)
        /\ Subarray(raw, 0, 4) # HeaderOf(backend))
       => Read(backend, After, id) = Found(raw, TypeOr(type))]_vars
\* bytes behind the other wrapper's header were stored raw and are read
\* back as they are
C24_ForeignHeaderPassed ==
  /\ last.op = "raw"
  /\ last.res = "true"
  /\ Len(mem[last.id].data) > 4
  /\ Subarray(mem[last.id].data, 0, 4) \in {SKE, AKE} \ {HeaderOf(backend)}
  /\ Read(backend, Cur, last.id) = Found(mem[last.id].data, mem[last.id].type)

\* C25: once one byte of a frame the wrapper stored is altered in the inner
\* backend, read through the wrapper returns null: it does not throw and
\* returns no content
C25_AlteredFrameReadsNull ==
  [][(last'.op = "tamper" /\ Tamper(Altered))
       => Read(backend, After, Altered) = NullRead]_vars
\* Secret returns a frame whose header was altered as content
C25_AlteredHeaderPassed ==
  /\ backend = "Secret"
  /\ last.op = "tamper"
  /\ last.to \in 1..HdrLen
  /\ Read(backend, Cur, Altered) = Found(mem[Altered].data, mem[Altered].type)

\* C26: once the signal has fired while a stream of Secret, Asymetric or
\* Compression is iterated, or the inner stream has failed, the iteration
\* comes to an end: the caller is not left waiting on a stream that is
\* neither ended nor errored
C26_IterationEnds ==
  ((reading.consumer = "iterating"
      /\ (reading.aborted \/ (reading.fails /\ reading.inner = <<>>)))
     ~> reading.consumer \in {"ended", "error"})
\* the feeding loop is over, the stream is open and the caller iterates
C26_LeftWaiting ==
  /\ reading.pc \in {"swallowed", "rejected"}
  /\ reading.out = "open"
  /\ reading.consumer = "iterating"
\* C27: at most one caller has an un-released Lock handle on the name at any
\* time, and no release, explicit or by scope disposal, removes a lock file
\* that another caller created and still holds, whatever the interleaving of
\* the writes and deletes on the id
C27_SingleWriter ==
  [][/\ Cardinality({c \in Callers : callers'[c].handle}) <= 1
     /\ \A c \in Callers :
          (/\ callers[c].pc \in {"release", "releasing"}
           /\ ExplicitRelease(c) \/ LockDispose(c))
            => \A d \in Callers \ {c} :
                 ~(callers[d].handle /\ callers[d].made)]_vars
\* a caller holds a handle whose lock file is gone, while its call is under
\* way behind the lock
C27_LockTakenAway ==
  \E c \in Callers :
    /\ callers[c].handle
    /\ ~callers[c].made
    /\ Locked \notin locks
    /\ callers[c].pc \in {"locked", "writing", "wrote-bytes", "wrote-sidecar",
                          "streaming", "opened", "streamed", "unlinking"}
\* C28: a token-gated write, writeStream or delete that acquired the lock
\* has released it when it completes, whether it returned true, returned
\* false or threw: the lock file it created is gone, and with no call in
\* flight there is no lock file, so that the next call can acquire the lock
C28_ReleasedOnEveryExit ==
  /\ \A c \in Callers : callers[c].pc = "done" => ~callers[c].made
  /\ (\A c \in Callers : ~InFlight(c)) => Locked \notin locks
\* a writeStream that threw behind its lock and a write that was refused
\* for its token have both completed, and there is no lock file
C28_ThrownAndRefused ==
  /\ Locked \notin locks
  /\ \E c, d \in Callers :
       /\ callers[c].pc = "done" /\ callers[d].pc = "done"
       /\ callers[c].op = "stream" /\ callers[c].res = "throw"
       /\ callers[d].op = "write" /\ callers[d].res = "false"
\* C29: a call of Lock.await ends by returning a handle or null, or by the
\* cancellation it was given, never by another error; and once the holder
\* has released the lock a waiter goes on to return, also when the release
\* came between its failed exclusive create and the start of its watch
C29_AwaitTerminates ==
  /\ [](\A c \in Callers :
          callers[c].pc = "done"
            => callers[c].res \in {"handle", "null", "aborted"})
  /\ \A c \in Callers :
       (\/ callers[c].pc = "woken"
        \/ callers[c].pc = "watch" /\ Locked \notin locks) ~> ~Waiting(c)
\* a waiter's watch started after the release and the call ended in ENOENT
C29_WatchOnReleased ==
  \E c \in Callers :
    /\ callers[c].pc = "done"
    /\ callers[c].op = "await"
    /\ callers[c].res = "enoent"
    /\ callers[c].with # {}
\* C30: of two token-gated writes of different content that were under way
\* at the same time on the id with the same token, at most one returns
\* true, and once both have completed the stored bytes and the sidecar are
\* those of the one that returned true
C30_TokenCheckAtomic ==
  \A c, d \in Callers :
    (/\ c # d
     /\ callers[c].pc = "done" /\ callers[d].pc = "done"
     /\ callers[c].op = "write" /\ callers[d].op = "write"
     /\ callers[c].token = callers[d].token
     /\ callers[c].content # callers[d].content
     /\ (c \in callers[d].with \/ d \in callers[c].with)
     /\ callers[c].res = "true")
      => /\ callers[d].res # "true"
         /\ Locked \in DOMAIN files /\ files[Locked] = callers[c].content
         /\ Locked \in DOMAIN sidecar
         /\ sidecar[Locked].hash = Hash(callers[c].content)
\* both writes, neither of the content the token stands for, read the
\* stored hash behind the lock, found it equal to their token and returned
\* true
C30_BothPassed ==
  \E c, d \in Callers :
    /\ c # d
    /\ callers[c].pc = "done" /\ callers[d].pc = "done"
    /\ callers[c].op = "write" /\ callers[d].op = "write"
    /\ callers[c].token = callers[d].token
    /\ callers[c].content # callers[d].content
    /\ Hash(callers[c].content) # ValueOf(callers[c].token)
    /\ Hash(callers[d].content) # ValueOf(callers[d].token)
    /\ d \in callers[c].with
    /\ callers[c].res = "true" /\ callers[d].res = "true"
\* C31: of two writes without a token that were under way at the same time
\* on the absent id at most one returns true, and the bytes file and the
\* sidecar they leave were written by the same call: the sidecar's hash is
\* the hash of the bytes file
C31_ExclusiveCreate ==
  \A c, d \in Callers :
    (/\ c # d
     /\ callers[c].pc = "done" /\ callers[d].pc = "done"
     /\ callers[c].op = "create" /\ callers[d].op = "create"
     /\ d \in callers[c].with)
      => /\ ~(callers[c].res = "true" /\ callers[d].res = "true")
         /\ Locked \in DOMAIN files <=> Locked \in DOMAIN sidecar
         /\ Locked \in DOMAIN files
              => sidecar[Locked].hash = Hash(files[Locked])
\* both creates failed, and the files left are the bytes of one and the
\* sidecar of the other
C31_MixedFiles ==
  \E c, d \in Callers :
    /\ c # d
    /\ callers[c].pc = "done" /\ callers[d].pc = "done"
    /\ callers[c].op = "create" /\ callers[d].op = "create"
    /\ d \in callers[c].with
    /\ callers[c].res = "throw" /\ callers[d].res = "throw"
    /\ Locked \in DOMAIN files /\ Locked \in DOMAIN sidecar
    /\ files[Locked] = callers[c].content
    /\ sidecar[Locked].hash = Hash(callers[d].content)
    /\ callers[c].content # callers[d].content
\* the store that holds the bytes under the id
Holding(input) == MemoryWrite(Empty, Locked, input, DefaultType, NoToken).mem
\* final is called on the decryptor that was fed a whole frame
FrameFinal(b) ==
  /\ backend = b
  /\ feed.framed
  /\ feed.pc = "feeding"
  /\ feed'.pc = "ended"

\* C32: however the stored SKE frame is split into chunks, the output of
\* Secret's stream decryptor is the plaintext read returns, without error,
\* and the buffer it has retained when final is called is the last 16 bytes
\* of the frame
C32_ChunkingIndependent ==
  [][FrameFinal("Secret")
       => /\ ~feed'.d.error
          /\ feed'.d.out = SecretRead(Holding(feed.input), Locked).content
          /\ feed.d.hasBuffer
          /\ feed.d.buffer = SubarrayFrom(feed.input, -TagLen)]_vars
\* a chunk ended the preamble with 16 bytes or fewer after it: the cipher
\* exists, and the bytes after the preamble were not retained
C32_TailNotRetained ==
  /\ backend = "Secret"
  /\ feed.framed
  /\ feed.pc = "feeding"
  /\ feed.d.cipher
  /\ feed.at >= PreambleLen
  /\ feed.at <= PreambleLen + TagLen
  /\ feed.d.buffer # SubarrayFrom(SubSeq(feed.input, 1, feed.at), PreambleLen)
\* C33: when the stream does not begin with 'SKE:', Secret's stream
\* decryptor passes it through in every chunking, also with a first chunk
\* or a whole stream shorter than four bytes: the output is the input, byte
\* for byte, and the stream ends without error
C33_PassThrough ==
  [][(/\ backend = "Secret"
      /\ ~feed.framed
      /\ Subarray(feed.input, 0, HdrLen) # SKE
      /\ feed.pc = "feeding"
      /\ feed'.pc = "ended")
       => /\ ~feed'.d.error
          /\ feed'.d.out = feed.input]_vars
\* a first chunk shorter than four bytes was buffered and came out again in
\* front of every later chunk: the output is longer than the input
C33_EmittedTwice ==
  /\ backend = "Secret"
  /\ ~feed.framed
  /\ feed.pc = "ended"
  /\ ~feed.d.error
  /\ feed.d.passmode
  /\ Len(feed.d.out) > Len(feed.input)
\* C34: in every chunking of an AKE frame, Asymetric's stream decryptor
\* feeds the decipher no byte of the header or of the wrapped key, feeds it
\* every ciphertext byte once and in order, and hands over as auth tag at
\* final the last 16 bytes of the frame
C34_HeaderAndTagKept ==
  [][(backend = "Asymetric" /\ feed'.framed /\ feed'.pc # "idle")
       => /\ \A i \in 1..Len(feed'.d.plain) : feed'.d.plain[i] # Garbage
          /\ FrameFinal("Asymetric")
               => /\ feed.d.hasBuffer
                  /\ SubarrayFrom(feed.d.buffer, -TagLen)
                       = SubarrayFrom(feed.input, -TagLen)
                  /\ feed'.d.plain = feed.content]_vars
\* bytes of the header and the wrapped key, left in the buffer when the
\* cipher was made, have been fed to the decipher
C34_KeyBytesFed ==
  /\ backend = "Asymetric"
  /\ feed.framed
  /\ feed.pc = "feeding"
  /\ feed.d.cipher
  /\ feed.d.fed > Len(feed.content)
  /\ \E i \in 1..Len(feed.d.plain) : feed.d.plain[i] = Garbage
\* C35: a set(n, B) that returns true has made current a tag whose cid is
\* the hash of B, never null, also when another set of the same bytes runs
\* at the same time: the tag a set builds has the cid of its content, and
\* the tag of a set that returns true has a cid
C35_SetNeverTombstones ==
  [][\A w \in Writers :
       writers[w].op = "set"
         => /\ (writers[w].pc = "pre" /\ writers'[w].pc = "tag-token")
                 => writers'[w].tag.cid = Hash(writers[w].content)
            /\ (/\ writers[w].pc = "read-back"
                /\ writers'[w].pc = "done"
                /\ writers'[w].res = "true")
                 => writers[w].tag.cid # Undef]_vars
\* a set whose push lost the race for the blob has installed a tag without
\* cid as the current one and returned true
C35_SetInstalledTombstone ==
  \E w \in Writers :
    /\ writers[w].op = "set"
    /\ writers[w].pc = "done"
    /\ writers[w].res = "true"
    /\ writers[w].cas = "true"
    /\ writers[w].tag.cid = Undef
    /\ installs[Shared] # <<>>
    /\ installs[Shared][1] = TidOf(w)
\* C36: once pushStream has returned, a cid or null, the backend stores
\* nothing under the temporary name the call generated, also when a blob
\* was stored under the computed cid before the call
C36_NoTemporaryLeft ==
  [][\A uuid \in Range(Uuids) :
       (/\ last'.op = "pushStream"
        /\ last'.res # <<"throw">>
        /\ \E chunks \in ChunkSeqs, type \in TypeArgs, k \in KeysOf(backend) :
             CallPushStream(chunks, type, k, uuid))
         => NameId(uuid) \notin Stored(backend, After)]_vars
\* pushStream has returned the cid of a blob that was stored before, and
\* the streamed copy is still stored under a temporary name
C36_TemporaryKept ==
  /\ last.op = "pushStream"
  /\ last.res = last.id
  /\ Exists(backend, Cur, last.id)
  /\ backend = "Memory"
  /\ \E uuid \in Range(Uuids) : NameId(uuid) \in Stored(backend, Cur)
\* C37: after any sequence of set, writeStream, copy and delete, every tag
\* tags(n) yields has the name n, and a copy onto a name that was set
\* before keeps the earlier tags of that name among those tags(m) yields
C37_TagsKeepName ==
  [][/\ \A name \in Names :
          \A i \in 1..Len(Tags(backend, After, name).tags) :
            Tags(backend, After, name).tags[i].name = name
     /\ \A target \in Names :
          (/\ last'.op = "copy"
           /\ last'.to = target
           /\ last'.res = "true")
            => Range(Tags(backend, Cur, target).tags)
                 \subseteq Range(Tags(backend, After, target).tags)]_vars
\* after a copy onto a name with a history, tags of that name yields a tag
\* of the source's name and none of the name's earlier tags
C37_ForeignHistory ==
  \E source \in Names, target \in Names :
    /\ source # target
    /\ last.op = "copy"
    /\ last.id = source
    /\ last.to = target
    /\ last.res = "true"
    /\ Len(installs[target]) > 1
    /\ \E i \in 1..Len(Tags(backend, Cur, target).tags) :
         Tags(backend, Cur, target).tags[i].name = source
    /\ \A i \in 2..Len(installs[target]) :
         TagOf(Cur, installs[target][i])
           \notin Range(Tags(backend, Cur, target).tags)
\* C38: on Files, whenever no call is in progress, the bytes file of an id
\* is there iff its sidecar is, the sidecar's hash is the hash of the bytes,
\* and exists, read, type and token agree on whether the id is stored
C38_FilesAtRest ==
  backend = "Files" =>
    \A id \in Ids :
      /\ id \in DOMAIN files <=> id \in DOMAIN sidecar
      /\ (id \in DOMAIN files /\ id \in DOMAIN sidecar)
           => sidecar[id].hash = Hash(files[id])
      /\ FilesExists(Cur.F, id) <=> FilesRead(Cur.F, id) # NullRead
      /\ FilesExists(Cur.F, id) <=> FilesType(Cur.F, id) # "null"
      /\ FilesExists(Cur.F, id) <=> FilesToken(Cur.F, id) # NoToken
\* after a rename the calls disagree on both ids: the target exists and
\* cannot be read, the source does not exist and has a type and a token
C38_CallsDisagree ==
  /\ backend = "Files"
  /\ last.op = "rename"
  /\ FilesExists(Cur.F, last.to)
  /\ FilesRead(Cur.F, last.to) = NullRead
  /\ FilesToken(Cur.F, last.to) = NoToken
  /\ ~FilesExists(Cur.F, last.id)
  /\ FilesType(Cur.F, last.id) # "null"
  /\ FilesToken(Cur.F, last.id) # NoToken
\* C39: a write or writeStream with a token, and a delete, write or unlink
\* the bytes file and the sidecar only while the call holds the lock of the
\* path, and a call whose Lock.await returned null returns false next,
\* both files as they were
C39_OnlyUnderLock ==
  [][\A c \in Callers :
       callers[c].op # "create" =>
         /\ (\/ WriteBytes(c) \/ WriteSidecar(c)
             \/ UnlinkBytes(c) \/ UnlinkSidecar(c)
             \/ BareUnlinkBytes(c) \/ BareUnlinkSidecar(c)
             \/ StreamOpened(c) \/ StreamWritten(c) \/ StreamSidecar(c))
              => callers[c].made /\ Locked \in locks
         /\ Unlocked(c) => /\ callers'[c].pc = "done"
                           /\ callers'[c].res = "false"]_vars
\* a delete whose Lock.await returned null has unlinked the stored bytes
\* file while another caller holds the lock
C39_UnlinkedWithoutLock ==
  \E c \in Callers, d \in Callers :
    /\ callers[c].op = "delete"
    /\ callers[c].pc = "bare-bytes"
    /\ callers[c].res = "none"
    /\ ~callers[c].made
    /\ callers[d].made
    /\ Locked \in locks
    /\ Locked \notin DOMAIN files(***************************************************************************)
(* The Frontend's names under concurrent callers.                          *)
(***************************************************************************)
\* two calls overlapped: one began while the other was in flight
Concurrent(v, w) == v \in writers[w].with \/ w \in writers[v].with
Returned(w) == writers[w].pc = "done"

\* C18: of the callers that set or delete one name concurrently with the
\* same token, at most one returns true and the others return false
C18_OneWinner ==
  \A v \in Writers, w \in Writers :
    (/\ v # w
     /\ Returned(v)
     /\ Returned(w)
     /\ Concurrent(v, w)
     /\ writers[v].token # NoToken
     /\ writers[v].token = writers[w].token
     /\ writers[v].res = "true")
    => writers[w].res = "false"
C18_BothSucceed ==
  \E v \in Writers, w \in Writers :
    /\ v # w
    /\ Returned(v)
    /\ Returned(w)
    /\ Concurrent(v, w)
    /\ writers[v].token # NoToken
    /\ writers[v].token = writers[w].token
    /\ writers[v].res = "true"
    /\ writers[w].res = "true"
    /\ writers[v].cas = "true"
    /\ writers[w].cas = "false"

\* the ids of the tags tags(name) yields
ChainIds(chain) == [i \in 1..Len(chain.tags) |-> Hash(JsonBytes(chain.tags[i]))]
\* the pointer of the name holds the id of the tag the last accepted write
\* installed, and the tags reachable from it are the installed ones, each
\* with the pointer value its write replaced as pre
Consistent(chain, name) ==
  /\ ~chain.error
  /\ IF installs[name] = <<>>
     THEN TextRead(backend, Cur, NameId(name)).null
     ELSE TextRead(backend, Cur, NameId(name)).text
            = HexBytes(installs[name][1])
  /\ ChainIds(chain) = installs[name]
  /\ \A i \in 1..Len(chain.tags) :
       chain.tags[i].pre
         = IF i = Len(installs[name]) THEN Undef ELSE installs[name][i + 1]

\* C19, as stated: under every interleaving of set and delete on one name
\* over Memory the chain is consistent, and no tag that a caller whose
\* pointer write was rejected has pushed is reachable from the pointer
C19_LosersUnreachable ==
  \E chain \in {Tags(backend, Cur, Shared)} :
    /\ Consistent(chain, Shared)
    /\ \A w \in Writers :
         writers[w].cas = "false" => TidOf(w) \notin Range(ChainIds(chain))

\* C19, amended: under every interleaving of set and delete on one name
\* over Memory the chain is consistent: every tag reachable from the
\* pointer is one an accepted pointer write installed, with the pointer
\* value that write replaced as pre; the tag of a rejected caller is
\* reachable only when it is the very tag an accepted write installed
C19_ChainConsistent ==
  \E chain \in {Tags(backend, Cur, Shared)} :
    /\ Consistent(chain, Shared)
    /\ \A w \in Writers :
         (writers[w].cas = "false" /\ TidOf(w) \in Range(ChainIds(chain)))
         => TidOf(w) \in Range(installs[Shared])
\* two concurrent callers, one accepted and one rejected, with different
\* tags: the rejected one's tag is stored and is not in the chain
C19_LoserOrphaned ==
  \E v \in Writers, w \in Writers :
    /\ Concurrent(v, w)
    /\ writers[v].cas = "true"
    /\ writers[w].cas = "false"
    /\ TidOf(v) # TidOf(w)
    /\ Exists(backend, Cur, TidOf(w))
    /\ TidOf(w) \notin Range(ChainIds(Tags(backend, Cur, Shared)))
    /\ installs[Shared][1] = TidOf(v)

\* the record stored under tid is a tag, and so is every record its `pre`
\* leads to
RECURSIVE Intact(_, _, _)
Intact(S, tid, fuel) ==
  \E t \in {TagAt(backend, S, tid)} :
    /\ Exists(backend, S, tid)
    /\ ~t.threw
    /\ ~t.null
    /\ t.tag.pre # Undef => fuel > 0 /\ Intact(S, t.tag.pre, fuel - 1)
\* the slot id is absent, or its body is the id of a stored tag whose
\* chain of `pre` is stored tags to its end
PointsAtTags(S, id) ==
  Exists(backend, S, id) =>
    \E txt \in {TextRead(backend, S, id)} :
      /\ ~txt.threw
      /\ ~Falsy(txt)
      /\ Intact(S, IdOfText(txt.text), Cardinality(Stored(backend, S)))

====
